---- MODULE Spec2Model ----
(***************************************************************************)
(* Model of the heuristic HCL-Commerce -> SAP-Commerce transpiler of      *)
(* mcp_hcl_to_sap_project_up.py (and its predecessor mcp_hcl_to_sap.py):  *)
(* the tree walker, the pattern classifier, the template emitters and the *)
(* two conversion tools.                                                   *)
(***************************************************************************)
EXTENDS Integers, Sequences, FiniteSets, TLC

VARIABLES
    call,          \* the pure helper under study and its arguments
    out,           \* <<>> before the call, <<return value>> after it
    tool,          \* the MCP tool invoked
    input_dir,     \* what CONFIG's input_dir names: "missing", "file" or "dir"
    java_files,    \* the enumerated files, each a path and its content
    idx,           \* position of the for loop over java_files
    pc,            \* position in the tool's code
    hcl_code,      \* the argument of the string tools; the text read from the file
    java_tree,
    class_name,    \* <<>> is None
    methods,
    properties,
    is_controller,
    use_facade,
    output_data,
    results,
    fs,            \* the output directory: file name |-> content
    ret,           \* <<>> until the tool returns, then <<its result>>
    stages,        \* history: the pipeline states each unit has entered
    written,       \* history: the files opened for writing, by unit
    runs           \* history: the invocations of the tool on the same inputs, the
                   \* last one the current: what each emitted and returned

fnVars == <<call, out>>
locals == <<hcl_code, java_tree, class_name, methods, properties, is_controller,
            use_facade, output_data>>
toolVars == <<tool, input_dir, java_files, idx, pc, results, fs, ret, stages, written, runs>>
vars == <<call, out, tool, input_dir, java_files, idx, pc, hcl_code, java_tree, class_name,
          methods, properties, is_controller, use_facade, output_data, results, fs, ret,
          stages, written, runs>>

(***************************************************************************)
(* Syntax trees.  A javalang node is a record; `children` lists the       *)
(* values of its attributes in declaration order.  A child is a node, a   *)
(* container (kind "list", its items in `children`), a primitive scalar   *)
(* (kinds "str", "set", "bool", "int"; falsy when `name` is "") or None.  *)
(***************************************************************************)
PrimKinds == {"str", "set", "bool", "int"}

Value(kind, name, member, qualifier, implements, extends, declarators, children) ==
    [kind |-> kind, name |-> name, member |-> member, qualifier |-> qualifier,
     implements |-> implements, extends |-> extends,
     declarators |-> declarators, children |-> children]

NoneValue == Value("None", "", "", "", <<>>, <<>>, <<>>, <<>>)
Prim(kind, text) == Value(kind, text, "", "", <<>>, <<>>, <<>>, <<>>)
List(items) == Value("list", "", "", "", <<>>, <<>>, <<>>, items)
IfStatement(children) == Value("IfStatement", "", "", "", <<>>, <<>>, <<>>, children)
MethodInvocation(qualifier, member, arguments) ==
    Value("MethodInvocation", "", member, qualifier, <<>>, <<>>, <<>>,
          <<Prim("str", qualifier), Prim("str", member), List(arguments)>>)
BlockStatement(statements) ==
    Value("BlockStatement", "", "", "", <<>>, <<>>, <<>>, <<NoneValue, List(statements)>>)
ClassCreator(body) ==
    Value("ClassCreator", "", "", "", <<>>, <<>>, <<>>, <<Prim("str", "Runnable"), List(body)>>)
MethodDeclaration(name, body) ==
    Value("MethodDeclaration", name, "", "", <<>>, <<>>, <<>>,
          <<Prim("set", "public"), Prim("str", name), List(body)>>)
FieldDeclaration(declarators) ==
    Value("FieldDeclaration", "", "", "", <<>>, <<>>, declarators,
          <<Prim("set", "private"), List(<<>>)>>)
\* implements: the names of the listed types, <<>> when the clause is absent
\* (None); extends: <<name>> or <<>> (None).
ClassDeclaration(name, implements, extends, body) ==
    Value("ClassDeclaration", name, "", "", implements, extends, <<>>,
          <<Prim("set", "public"), Prim("str", "cls"), List(body)>>)
CompilationUnit(types) ==
    Value("CompilationUnit", "", "", "", <<>>, <<>>, <<>>, <<NoneValue, List(types)>>)

\* Python truthiness of a child value.
Truthy(v) ==
    CASE v.kind = "None" -> FALSE
      [] v.kind \in PrimKinds -> v.name # ""
      [] v.kind = "list" -> Len(v.children) > 0
      [] OTHER -> TRUE

IsScalar(v) == v.kind \in PrimKinds

\* getattr(node, "children", []): a container has no such attribute.
ChildrenOf(v) == IF v.kind = "list" THEN <<>> ELSE v.children

(***************************************************************************)
(* is_controller_command                                                   *)
(***************************************************************************)
is_controller_command_extends_only(node) ==
    Len(node.extends) > 0 /\ node.extends[1] = "ControllerCommandImpl"

is_controller_command(node) ==
    IF Len(node.implements) > 0
       /\ \E i \in 1..Len(node.implements) : node.implements[i] = "ControllerCommand"
    THEN TRUE
    ELSE IF Len(node.extends) > 0 /\ node.extends[1] = "ControllerCommandImpl"
    THEN TRUE
    ELSE FALSE

(***************************************************************************)
(* traverse_ast: the sequence of values handed to the visitor, in order.   *)
(***************************************************************************)
RECURSIVE traverse_ast(_)
RECURSIVE TraverseItems(_)
RECURSIVE TraverseChildren(_)

\* the loop over the items gives up at the first item without a children
\* attribute
RECURSIVE TraverseItems_stops_at_container(_)
TraverseItems_stops_at_container(items) ==
    IF items = <<>> THEN <<>>
    ELSE LET item == Head(items) IN
         IF item.kind = "list" THEN <<>>
         ELSE (IF Truthy(item) /\ ~IsScalar(item) THEN traverse_ast(item) ELSE <<>>)
              \o TraverseItems_stops_at_container(Tail(items))

\* the inner loop over the items of a container child
TraverseItems(items) ==
    IF items = <<>> THEN <<>>
    ELSE LET item == Head(items) IN
         (IF Truthy(item) /\ ~IsScalar(item) THEN traverse_ast(item) ELSE <<>>)
         \o TraverseItems(Tail(items))

\* the outer loop over the children
TraverseChildren(children) ==
    IF children = <<>> THEN <<>>
    ELSE LET child == Head(children) IN
         (IF child.kind = "list" THEN TraverseItems(child.children)
          ELSE IF Truthy(child) /\ ~IsScalar(child) THEN traverse_ast(child)
          ELSE <<>>)
         \o TraverseChildren(Tail(children))

\* the visitor called after the children instead of before them
traverse_ast_children_first(node) ==
    IF ~Truthy(node) THEN <<>>
    ELSE TraverseChildren(ChildrenOf(node)) \o <<node>>

traverse_ast(node) ==
    IF ~Truthy(node) THEN <<>>
    ELSE <<node>> \o TraverseChildren(ChildrenOf(node))

(***************************************************************************)
(* javalang's own iteration over a tree (for path, node in java_tree):     *)
(* every Node below the root, in pre-order, through containers at any      *)
(* depth.                                                                  *)
(***************************************************************************)
RECURSIVE walk_tree(_)
RECURSIVE WalkChildren(_)

WalkChildren(children) ==
    IF children = <<>> THEN <<>>
    ELSE LET child == Head(children) IN
         (IF child.kind = "None" \/ IsScalar(child) THEN <<>> ELSE walk_tree(child))
         \o WalkChildren(Tail(children))

walk_tree(root) ==
    IF root.kind = "list" THEN WalkChildren(root.children)
    ELSE <<root>> \o WalkChildren(root.children)

(***************************************************************************)
(* needs_facade                                                            *)
(***************************************************************************)
NoFlags == [has_if_statement |-> FALSE, put_calls |-> 0, has_command_context |-> FALSE]

visitor(flags, node) ==
    [has_if_statement |-> flags.has_if_statement \/ node.kind = "IfStatement",
     put_calls |-> flags.put_calls
                   + (IF node.kind = "MethodInvocation" /\ node.member = "put"
                         /\ node.qualifier = "resp" THEN 1 ELSE 0),
     has_command_context |-> flags.has_command_context
                   \/ (node.kind = "MethodInvocation" /\ node.qualifier = "commandContext")]

RECURSIVE VisitAll(_, _)
VisitAll(flags, visited) ==
    IF visited = <<>> THEN flags
    ELSE VisitAll(visitor(flags, Head(visited)), Tail(visited))

RECURSIVE FacadeFlags(_, _)
FacadeFlags(flags, method_list) ==
    IF method_list = <<>> THEN flags
    ELSE LET method == Head(method_list) IN
         FacadeFlags(IF method.name = "performExecute"
                     THEN VisitAll(flags, traverse_ast(method))
                     ELSE flags,
                     Tail(method_list))

needs_facade(method_list, props) ==
    LET flags == FacadeFlags(NoFlags, method_list) IN
    flags.has_if_statement \/ flags.put_calls > 1 \/ flags.has_command_context

(***************************************************************************)
(* Text.  A str is a sequence of lines ("\n".join), a line a sequence of   *)
(* tokens; "" is the one empty line.  An identifier is a sequence of       *)
(* words, every brace is a token of its own, and the fixed fragments of a  *)
(* template are tokens.                                                    *)
(***************************************************************************)
EmptyText == << <<>> >>

\* str.lower() on a word
LowerWord(w) ==
    CASE w = "Order" -> "order"
      [] w = "Cmd" -> "cmd"
      [] w = "Service" -> "service"
      [] w = "Facade" -> "facade"
      [] OTHER -> w

lower(name) == [i \in DOMAIN name |-> LowerWord(name[i])]

\* prop[0].upper() + prop[1:]
Capitalize(prop) ==
    CASE prop = "orderId" -> "OrderId"
      [] prop = "userId" -> "UserId"
      [] prop = "paymentMethod" -> "PaymentMethod"
      [] prop = "qty" -> "Qty"
      [] prop = "status" -> "Status"
      [] prop = "message" -> "Message"
      [] prop = "error" -> "Error"
      [] OTHER -> prop

RECURSIVE Join(_)
Join(texts) == IF texts = <<>> THEN <<>> ELSE Head(texts) \o Join(Tail(texts))

Layer(facade) == IF facade THEN "Facade" ELSE "Service"

(***************************************************************************)
(* generate_spring_controller                                              *)
(***************************************************************************)

\* an entry point for every method, whatever its name
RECURSIVE EntryPointsOfAll(_, _, _)
EntryPointsOfAll(cls_name, method_list, layer) ==
    IF method_list = <<>> THEN <<>>
    ELSE << <<"    @PostMapping(\"/api/">> \o lower(cls_name) \o <<"\")">>,
            <<"    public ResponseDTO execute(@RequestBody ">> \o cls_name
                \o <<"DTO", " request) ", "{">>,
            <<"        return ">> \o lower(cls_name) \o <<layer, ".execute(request);">>,
            <<"    ", "}">> >>
         \o EntryPointsOfAll(cls_name, Tail(method_list), layer)

RECURSIVE EntryPoints(_, _, _)
EntryPoints(cls_name, method_list, layer) ==
    IF method_list = <<>> THEN <<>>
    ELSE (IF Head(method_list).name = "performExecute"
          THEN << <<"    @PostMapping(\"/api/">> \o lower(cls_name) \o <<"\")">>,
                  <<"    public ResponseDTO execute(@RequestBody ">> \o cls_name
                      \o <<"DTO", " request) ", "{">>,
                  <<"        return ">> \o lower(cls_name) \o <<layer, ".execute(request);">>,
                  <<"    ", "}">> >>
          ELSE <<>>)
         \o EntryPoints(cls_name, Tail(method_list), layer)

ControllerText(cls_name, method_list, layer, call_layer) ==
    << <<"import org.springframework.web.bind.annotation.RestController;">>,
       <<"import org.springframework.web.bind.annotation.PostMapping;">>,
       <<"import org.springframework.web.bind.annotation.RequestBody;">>,
       <<"import com.example.ResponseDTO;">>,
       <<"@RestController">>,
       <<"public class ">> \o cls_name \o <<"Controller", " ", "{">>,
       <<"    private final ">> \o cls_name \o <<layer, " ">>
           \o lower(cls_name) \o <<layer, ";">>,
       <<"    public ">> \o cls_name \o <<"Controller", "(">> \o cls_name
           \o <<layer, " ">> \o lower(cls_name) \o <<layer, ") ", "{">>,
       <<"        this.">> \o lower(cls_name) \o <<layer, " = ">>
           \o lower(cls_name) \o <<layer, ";">>,
       <<"    ", "}">> >>
    \o EntryPoints(cls_name, method_list, call_layer)
    \o << <<"}">> >>

generate_spring_controller_calls_service(cls_name, method_list, props, facade) ==
    ControllerText(cls_name, method_list, Layer(facade), "Service")

generate_spring_controller(cls_name, method_list, props, facade) ==
    ControllerText(cls_name, method_list, Layer(facade), Layer(facade))

\* mcp_hcl_to_sap.py: the controller always delegates to the service
generate_spring_controller_v1(cls_name, method_list, props) ==
    ControllerText(cls_name, method_list, "Service", "Service")

(***************************************************************************)
(* generate_spring_facade                                                  *)
(***************************************************************************)
generate_spring_facade(cls_name, method_list, props) ==
    << <<"import org.springframework.stereotype.Component;">>,
       <<"import com.example.ResponseDTO;">>,
       <<"import de.hybris.platform.core.model.order.OrderModel;">>,
       <<"import de.hybris.platform.order.OrderService;">>,
       <<"import de.hybris.platform.servicelayer.model.ModelService;">>,
       <<"@Component">>,
       <<"public class ">> \o cls_name \o <<"Facade", " ", "{">>,
       <<"    private final ">> \o cls_name \o <<"Service", " ">>
           \o lower(cls_name) \o <<"Service", ";">>,
       <<"    private final OrderService orderService;">>,
       <<"    private final ModelService modelService;">>,
       <<>>,
       <<"    public ">> \o cls_name \o <<"Facade", "(">> \o cls_name \o <<"Service", " ">>
           \o lower(cls_name)
           \o <<"Service", ", OrderService orderService, ModelService modelService) ", "{">>,
       <<"        this.">> \o lower(cls_name) \o <<"Service", " = ">>
           \o lower(cls_name) \o <<"Service", ";">>,
       <<"        this.orderService = orderService;">>,
       <<"        this.modelService = modelService;">>,
       <<"    ", "}">>,
       <<"    public ResponseDTO execute(">> \o cls_name \o <<"DTO", " request) ", "{">>,
       <<"        ResponseDTO response = new ResponseDTO();">>,
       <<"        try ", "{">>,
       <<"            if (", "request.", "get", "OrderId", "()", " != null && ",
         "request.", "get", "UserId", "()", " != null && ",
         "request.", "get", "PaymentMethod", "()", " != null) ", "{">>,
       <<"                OrderModel order = orderService.getOrderForCode(",
         "request.", "get", "OrderId", "()", ");">>,
       <<"                if (\"CREDIT_CARD\".equals(", "request.", "get", "PaymentMethod", "()",
         ") && \"PENDING\".equals(order.getStatus().getCode())) ", "{">>,
       <<"                    ", "response.", "set", "Status", "(\"success\");">>,
       <<"                    ", "response.", "set", "OrderId", "(",
         "request.", "get", "OrderId", "()", ");">>,
       <<"                    ", "response.", "set", "Message",
         "(\"Order processed successfully\");">>,
       <<"                    // Add storeId from configuration or service if needed">>,
       <<"                ", "}", " else ", "{">>,
       <<"                    ", "response.", "set", "Status", "(\"failure\");">>,
       <<"                    ", "response.", "set", "Error",
         "(\"Invalid payment method or order status\");">>,
       <<"                ", "}">>,
       <<"            ", "}", " else ", "{">>,
       <<"                ", "response.", "set", "Status", "(\"failure\");">>,
       <<"                ", "response.", "set", "Error", "(\"Missing required fields\");">>,
       <<"            ", "}">>,
       <<"        ", "}", " catch (Exception e) ", "{">>,
       <<"            ", "response.", "set", "Status", "(\"failure\");">>,
       <<"            ", "response.", "set", "Error",
         "(\"Error processing order: \" + e.getMessage());">>,
       <<"        ", "}">>,
       <<"        return response;">>,
       <<"    ", "}">>,
       <<"}">> >>

(***************************************************************************)
(* The execute method of the emitted facade (the Java text of lines        *)
(* 125-148), run on a request and an order service.  null is <<>>, a value *)
(* v is <<v>>.                                                             *)
(***************************************************************************)
NewResponse ==
    [status |-> <<>>, orderId |-> <<>>, message |-> <<>>, error |-> <<>>, status_sets |-> 0]
setStatus(response, status) ==
    [response EXCEPT !.status = <<status>>, !.status_sets = @ + 1]

\* the try block: the response it leaves and the exception it raises, if any
FacadeTry(request, lookup, response, pending) ==
    IF request.null
    THEN [raised |-> <<"NullPointerException">>, response |-> response]
    ELSE IF request.orderId # <<>> /\ request.userId # <<>> /\ request.paymentMethod # <<>>
    THEN IF lookup.outcome = "throws"
         THEN [raised |-> <<"UnknownIdentifierException">>, response |-> response]
         ELSE IF request.paymentMethod # <<"CREDIT_CARD">>
         THEN [raised |-> <<>>,
               response |-> [setStatus(response, "failure") EXCEPT
                                !.error = <<"Invalid payment method or order status">>]]
         ELSE IF lookup.outcome = "null" \/ lookup.status = <<>>
         THEN [raised |-> <<"NullPointerException">>, response |-> response]
         ELSE IF pending
         THEN [raised |-> <<>>,
               response |-> [setStatus(response, "success") EXCEPT
                                !.orderId = request.orderId,
                                !.message = <<"Order processed successfully">>]]
         ELSE [raised |-> <<>>,
               response |-> [setStatus(response, "failure") EXCEPT
                                !.error = <<"Invalid payment method or order status">>]]
    ELSE [raised |-> <<>>,
          response |-> [setStatus(response, "failure") EXCEPT
                           !.error = <<"Missing required fields">>]]

FacadeCatch(tried) ==
    IF tried.raised = <<>> THEN tried.response
    ELSE [setStatus(tried.response, "failure") EXCEPT
             !.error = <<"Error processing order: ", tried.raised[1]>>]

\* "PENDING".equals(order.getStatus().getCode()), for an order with a status
IsPending(lookup) ==
    lookup.outcome = "order" /\ lookup.status # <<>> /\ lookup.status[1] = <<"PENDING">>

\* the order's status is not looked at
facade_execute_any_status(request, lookup) ==
    FacadeCatch(FacadeTry(request, lookup, NewResponse, TRUE))

facade_execute(request, lookup) ==
    FacadeCatch(FacadeTry(request, lookup, NewResponse, IsPending(lookup)))

\* the requests and the answers of orderService.getOrderForCode
Requests ==
    {[null |-> TRUE, orderId |-> <<>>, userId |-> <<>>, paymentMethod |-> <<>>]}
    \cup {[null |-> FALSE, orderId |-> o, userId |-> u, paymentMethod |-> p] :
            o \in {<<>>, <<"o1">>}, u \in {<<>>, <<"u1">>},
            p \in {<<>>, <<"CREDIT_CARD">>, <<"PAYPAL">>}}
Lookups ==
    {[outcome |-> "throws", status |-> <<>>], [outcome |-> "null", status |-> <<>>]}
    \cup {[outcome |-> "order", status |-> s] :
            s \in {<<>>, << <<>> >>, << <<"PENDING">> >>, << <<"COMPLETED">> >>}}

(***************************************************************************)
(* generate_spring_service                                                 *)
(***************************************************************************)
generate_spring_service(cls_name, method_list) ==
    << <<"import org.springframework.stereotype.Service;">>,
       <<"import com.example.ResponseDTO;">>,
       <<"import de.hybris.platform.core.model.order.OrderModel;">>,
       <<"import de.hybris.platform.order.OrderService;">>,
       <<"@Service">>,
       <<"public class ">> \o cls_name \o <<"Service", " ", "{">>,
       <<"    private final OrderService orderService;">>,
       <<>>,
       <<"    public ">> \o cls_name \o <<"Service", "(OrderService orderService) ", "{">>,
       <<"        this.orderService = orderService;">>,
       <<"    ", "}">>,
       <<"    public ResponseDTO execute(">> \o cls_name \o <<"DTO", " request) ", "{">>,
       <<"        ResponseDTO response = new ResponseDTO();">>,
       <<"        // Delegate to SAP Commerce OrderService for persistence">>,
       <<"        try ", "{">>,
       <<"            OrderModel order = orderService.getOrderForCode(",
         "request.", "get", "OrderId", "()", ");">>,
       <<"            ", "response.", "set", "Status", "(\"success\");">>,
       <<"        ", "}", " catch (Exception e) ", "{">>,
       <<"            ", "response.", "set", "Status", "(\"failure\");">>,
       <<"            ", "response.", "set", "Error", "(\"Service error: \" + e.getMessage());">>,
       <<"        ", "}">>,
       <<"        return response;">>,
       <<"    ", "}", "}">>,
       <<"}">> >>

generate_spring_service_v1(cls_name, method_list) ==
    << <<"import org.springframework.stereotype.Service;">>,
       <<"import com.example.ResponseDTO;">>,
       <<"@Service">>,
       <<"public class ">> \o cls_name \o <<"Service", " ", "{">>,
       <<"    // Injected SAP Commerce services (e.g., CartService, UserService)">>,
       <<"    public ResponseDTO execute(">> \o cls_name \o <<"DTO", " request) ", "{">>,
       <<"        // Business logic: Add product to cart">>,
       <<"        // TODO: Implement cart update using CartService">>,
       <<"        ResponseDTO response = new ResponseDTO();">>,
       <<"        ", "response.", "set", "Status", "(\"success\");">>,
       <<"        return response;">>,
       <<"    ", "}">>,
       <<"}">> >>

(***************************************************************************)
(* generate_dto, generate_response_dto                                     *)
(***************************************************************************)
FieldLine(prop) == <<"    private String ", prop, ";">>
GetterLine(prop) ==
    <<"    public String ", "get", Capitalize(prop), "() ", "{", " return ", prop, "; ", "}">>
SetterLine(prop) ==
    <<"    public void ", "set", Capitalize(prop), "(String ", prop, ") ", "{",
      " this.", prop, " = ", prop, "; ", "}">>

RECURSIVE DtoFields(_)
DtoFields(props) ==
    IF props = <<>> THEN <<>>
    ELSE <<FieldLine(Head(props))>> \o DtoFields(Tail(props))

RECURSIVE DtoAccessors(_)
DtoAccessors(props) ==
    IF props = <<>> THEN <<>>
    ELSE <<GetterLine(Head(props)), SetterLine(Head(props))>>
         \o DtoAccessors(Tail(props))

\* generate_dto with repeated names dropped
RECURSIVE Dedup(_)
Dedup(props) ==
    IF props = <<>> THEN <<>>
    ELSE LET front == Dedup(SubSeq(props, 1, Len(props) - 1))
             last == props[Len(props)]
         IN IF \E i \in DOMAIN front : front[i] = last THEN front ELSE Append(front, last)

generate_dto_dedup(cls_name, props) ==
    << <<"public class ">> \o cls_name \o <<"DTO", " ", "{">> >>
    \o DtoFields(Dedup(props))
    \o << <<>> >>
    \o DtoAccessors(Dedup(props))
    \o << <<"}">> >>

generate_dto(cls_name, props) ==
    << <<"public class ">> \o cls_name \o <<"DTO", " ", "{">> >>
    \o DtoFields(props)
    \o << <<>> >>
    \o DtoAccessors(props)
    \o << <<"}">> >>

\* mcp_hcl_to_sap.py: generate_dto
generate_dto_v1(cls_name, props) ==
    << <<"public class ">> \o cls_name \o <<"DTO", " ", "{">> >>
    \o DtoFields(props)
    \o << <<>> >>
    \o DtoAccessors(props)
    \o << <<"}">> >>

\* a response object without the error field
generate_response_dto_three_fields ==
    << <<"public class ResponseDTO ", "{">>,
       FieldLine("status"),
       FieldLine("orderId"),
       FieldLine("message"),
       GetterLine("status"), SetterLine("status"),
       GetterLine("orderId"), SetterLine("orderId"),
       GetterLine("message"), SetterLine("message"),
       <<"}">> >>

generate_response_dto ==
    << <<"public class ResponseDTO ", "{">>,
       FieldLine("status"),
       FieldLine("orderId"),
       FieldLine("message"),
       FieldLine("error"),
       <<"    public String ", "get", "Status", "() ", "{", " return ", "status", "; ", "}">>,
       <<"    public void ", "set", "Status", "(String ", "status", ") ", "{",
         " this.", "status", " = ", "status", "; ", "}">>,
       <<"    public String ", "get", "OrderId", "() ", "{", " return ", "orderId", "; ", "}">>,
       <<"    public void ", "set", "OrderId", "(String ", "orderId", ") ", "{",
         " this.", "orderId", " = ", "orderId", "; ", "}">>,
       <<"    public String ", "get", "Message", "() ", "{", " return ", "message", "; ", "}">>,
       <<"    public void ", "set", "Message", "(String ", "message", ") ", "{",
         " this.", "message", " = ", "message", "; ", "}">>,
       <<"    public String ", "get", "Error", "() ", "{", " return ", "error", "; ", "}">>,
       <<"    public void ", "set", "Error", "(String ", "error", ") ", "{",
         " this.", "error", " = ", "error", "; ", "}">>,
       <<"}">> >>

\* mcp_hcl_to_sap.py builds the response object inline, with one field
response_dto_v1 ==
    << <<"public class ResponseDTO ", "{">>,
       FieldLine("status"),
       <<"    public String ", "get", "Status", "() ", "{", " return ", "status", "; ", "}">>,
       <<"    public void ", "set", "Status", "(String ", "status", ") ", "{",
         " this.", "status", " = ", "status", "; ", "}">>,
       <<"}">> >>

(***************************************************************************)
(* generate_impex: the text, or the exception it raises.  Indexing the     *)
(* list with the string 'userId' or 'paymentMethod' is a TypeError.        *)
(***************************************************************************)
Contains(props, prop) == \E i \in DOMAIN props : props[i] = prop
\* list.index
IndexOf(props, prop) ==
    CHOOSE i \in DOMAIN props :
        props[i] = prop /\ \A j \in 1..(i - 1) : props[j] # prop

ImpexHeader == <<"INSERT_UPDATE Order;code[unique=true];user(uid);paymentType(code)">>

generate_impex(cls_name, props) ==
    IF Contains(props, "orderId")
    THEN IF ~Contains(props, "userId") \/ ~Contains(props, "paymentMethod")
         THEN [raised |-> "TypeError: list indices must be integers or slices, not str"]
         ELSE [text |->
                << ImpexHeader,
                   <<";">> \o lower(cls_name)
                   \o <<"_", props[IndexOf(props, "orderId")], ";",
                        props[IndexOf(props, "userId")], ";",
                        props[IndexOf(props, "paymentMethod")]>> >>]
    ELSE [text |-> << ImpexHeader,
                      <<";">> \o lower(cls_name) \o <<"_", "default", ";", "default", ";", "default">> >>]

(***************************************************************************)
(* The bean-registration lines and the Config text                         *)
(***************************************************************************)
BeanLine(cls_name, layer) ==
    <<"<bean id='">> \o lower(cls_name) \o <<layer, "' class='com.example.">>
    \o cls_name \o <<layer, "'/>">>

spring_config_both_beans(cls_name, props, facade) ==
    Join(<< generate_response_dto, EmptyText, generate_dto(cls_name, props), EmptyText,
            <<BeanLine(cls_name, "Service")>>,
            <<BeanLine(cls_name, "Facade")>> >>)

spring_config(cls_name, props, facade) ==
    Join(<< generate_response_dto,
            EmptyText,
            generate_dto(cls_name, props),
            EmptyText,
            <<BeanLine(cls_name, "Service")>>,
            IF facade THEN <<BeanLine(cls_name, "Facade")>> ELSE EmptyText >>)

spring_config_v1(cls_name, props) ==
    Join(<< response_dto_v1,
            EmptyText,
            generate_dto_v1(cls_name, props),
            EmptyText,
            <<BeanLine(cls_name, "Service")>> >>)

\* output_data of convert_hcl_to_sap_files
OutputData_facade_always(cls_name, method_list, props, facade) ==
    [input_type |-> "ControllerCommand",
     spring_controller |-> generate_spring_controller(cls_name, method_list, props, facade),
     spring_facade |-> generate_spring_facade(cls_name, method_list, props),
     spring_service |-> generate_spring_service(cls_name, method_list),
     spring_config |-> spring_config(cls_name, props, facade)]

OutputData(cls_name, method_list, props, facade) ==
    [input_type |-> "ControllerCommand",
     spring_controller |-> generate_spring_controller(cls_name, method_list, props, facade),
     spring_facade |-> IF facade
                       THEN generate_spring_facade(cls_name, method_list, props)
                       ELSE EmptyText,
     spring_service |-> generate_spring_service(cls_name, method_list),
     spring_config |-> spring_config(cls_name, props, facade)]

\* mcp_hcl_to_sap.py: the texts of the result
OutputDataV1(cls_name, method_list, props) ==
    [input_type |-> "ControllerCommand",
     spring_controller |-> generate_spring_controller_v1(cls_name, method_list, props),
     spring_service |-> generate_spring_service_v1(cls_name, method_list),
     spring_config |-> spring_config_v1(cls_name, props)]

(***************************************************************************)
(* Inputs                                                                  *)
(***************************************************************************)
MaxImplements == 2
MaxStmts == 2
MaxMethods == 2
MaxNameLen == 2
MaxProps == 2

SeqsUpTo(S, n) == UNION {[1..k -> S] : k \in 0..n}

TypeNames == {"ControllerCommand", "ControllerCommandImpl", "Runnable", "controllercommand"}

\* Statements of a method body.  An instance initializer block of an
\* anonymous class is a container inside the class body's container.
IfStmt == IfStatement(<<NoneValue>>)
PutResp == MethodInvocation("resp", "put", <<>>)
PutReq == MethodInvocation("req", "put", <<>>)
GetResp == MethodInvocation("resp", "get", <<>>)
CtxCall == MethodInvocation("commandContext", "getStoreId", <<>>)
InBlock(stmt) == BlockStatement(<<stmt>>)
InInitializer(stmt) == ClassCreator(<<List(<<stmt>>)>>)
InInnerMethod(name, stmt) == ClassCreator(<<MethodDeclaration(name, <<stmt>>)>>)

Stmts ==
    {IfStmt, PutResp, PutReq, GetResp, CtxCall}
    \cup {InBlock(IfStmt), InBlock(PutResp)}
    \cup {InInitializer(IfStmt), InInitializer(PutResp), InInitializer(CtxCall)}
    \cup {InInnerMethod("performExecute", PutResp)}

MethodNames == {"performExecute", "validate"}

CutsOf(k, n) ==
    {c \in [1..(k + 1) -> 0..n] :
        c[1] = 0 /\ c[k + 1] = n /\ \A i \in 1..k : c[i] <= c[i + 1]}

\* The method declarations of a class body: at most MaxMethods methods
\* holding at most MaxStmts statements between them.
MethodLists ==
    {<<>>} \cup UNION {
        {[i \in 1..k |-> MethodDeclaration(names[i], SubSeq(s, c[i] + 1, c[i + 1]))] :
            names \in [1..k -> MethodNames], c \in CutsOf(k, Len(s))} :
        s \in SeqsUpTo(Stmts, MaxStmts), k \in 1..MaxMethods}

\* The extraction loop's scan of a parsed unit (for path, node in java_tree).
RECURSIVE SelectKind(_, _)
SelectKind(nodes, kind) ==
    IF nodes = <<>> THEN <<>>
    ELSE (IF Head(nodes).kind = kind THEN <<Head(nodes)>> ELSE <<>>)
         \o SelectKind(Tail(nodes), kind)

ExtractMethods(tree) == SelectKind(walk_tree(tree), "MethodDeclaration")

Words == {"Order", "Cmd", "Service", "Facade"}
ClassNames == SeqsUpTo(Words, MaxNameLen) \ {<<>>}
FieldNames == {"orderId", "userId", "paymentMethod"}
PropertyLists == SeqsUpTo(FieldNames, MaxProps)
MethodHeads == SeqsUpTo({MethodDeclaration(n, <<>>) : n \in MethodNames}, MaxMethods)

ClassHeads ==
    {ClassDeclaration(<<"Cmd">>, impl, ext, <<>>) :
        impl \in SeqsUpTo(TypeNames, MaxImplements),
        ext \in SeqsUpTo(TypeNames, 1)}

(***************************************************************************)
(* Source units.  javalang.parse.parse returns the tree of a well-formed   *)
(* unit, raises JavaSyntaxError on a syntax error and LexerError on an     *)
(* untokenizable text.                                                     *)
(***************************************************************************)
Source(kind, tree) == [kind |-> kind, tree |-> tree]
Unset == Source("unset", NoneValue)

\* parse_hcl_java_code: what the helper returns or raises.  It catches
\* JavaSyntaxError only, and its handler logs e.location before returning
\* None: where the exception carries no such attribute the log line raises
\* AttributeError instead.
parse_hcl_java_code(code) ==
    CASE code.kind = "java" -> {[tree |-> code.tree]}
      [] code.kind = "lexerror" -> {[raised |-> "LexerError"]}
      [] code.kind = "syntaxerror" -> {[tree |-> NoneValue], [raised |-> "AttributeError"]}

Field(prop) == FieldDeclaration(<<prop>>)

SyntaxErrorUnit == Source("syntaxerror", NoneValue)
LexerErrorUnit == Source("lexerror", NoneValue)
\* a unit that declares no class
NoClassUnit == Source("java", CompilationUnit(<<>>))
\* class OrderCmd implements Runnable, with a branching performExecute
NotCommandUnit ==
    Source("java", CompilationUnit(<<
        ClassDeclaration(<<"Order", "Cmd">>, <<"Runnable">>, <<>>,
            <<MethodDeclaration("performExecute", <<IfStmt>>)>>) >>))
\* class OrderCmd implements ControllerCommand, three fields, an if
FacadeUnit ==
    Source("java", CompilationUnit(<<
        ClassDeclaration(<<"Order", "Cmd">>, <<"ControllerCommand">>, <<>>,
            <<Field("orderId"), Field("userId"), Field("paymentMethod"),
              MethodDeclaration("performExecute", <<InBlock(IfStmt), PutResp>>)>>) >>))
\* class OrderCmd extends ControllerCommandImpl, one field, one resp.put
PlainUnit ==
    Source("java", CompilationUnit(<<
        ClassDeclaration(<<"Order", "Cmd">>, <<>>, <<"ControllerCommandImpl">>,
            <<Field("orderId"),
              MethodDeclaration("performExecute", <<PutResp>>)>>) >>))
\* class Cmd implements ControllerCommand without a performExecute
NoEntryUnit ==
    Source("java", CompilationUnit(<<
        ClassDeclaration(<<"Cmd">>, <<"Runnable", "ControllerCommand">>, <<>>,
            <<MethodDeclaration("validate", <<IfStmt>>)>>) >>))
\* a command class followed by a helper class
CommandThenHelperUnit ==
    Source("java", CompilationUnit(<<
        ClassDeclaration(<<"Order", "Cmd">>, <<"ControllerCommand">>, <<>>,
            <<MethodDeclaration("performExecute", <<PutResp, PutResp>>)>>),
        ClassDeclaration(<<"Cmd", "Service">>, <<>>, <<>>, <<Field("qty")>>) >>))
\* a helper class followed by a command class
HelperThenCommandUnit ==
    Source("java", CompilationUnit(<<
        ClassDeclaration(<<"Cmd", "Service">>, <<>>, <<"Object">>,
            <<Field("qty"), MethodDeclaration("performExecute", <<CtxCall>>)>>),
        ClassDeclaration(<<"Cmd">>, <<>>, <<"ControllerCommandImpl">>,
            <<MethodDeclaration("performExecute", <<PutReq>>)>>) >>))
\* class Cmd extends ControllerCommandImpl; the only if-statement of
\* performExecute is in an initializer block of an anonymous class
HiddenIfUnit ==
    Source("java", CompilationUnit(<<
        ClassDeclaration(<<"Cmd">>, <<>>, <<"ControllerCommandImpl">>,
            <<MethodDeclaration("performExecute", <<InInitializer(IfStmt)>>)>>) >>))

\* a command class that declares a nested helper class after its method
NestedHelperUnit ==
    Source("java", CompilationUnit(<<
        ClassDeclaration(<<"Order", "Cmd">>, <<"ControllerCommand">>, <<>>,
            <<Field("orderId"),
              MethodDeclaration("performExecute", <<PutResp>>),
              ClassDeclaration(<<"Cmd", "Service">>, <<>>, <<>>,
                  <<Field("qty"), MethodDeclaration("validate", <<IfStmt>>)>>)>>) >>))

Sources ==
    {SyntaxErrorUnit, LexerErrorUnit, NoClassUnit, NotCommandUnit, FacadeUnit, PlainUnit,
     NoEntryUnit, CommandThenHelperUnit, HelperThenCommandUnit, HiddenIfUnit,
     NestedHelperUnit}

MaxFiles == 2

\* the enumerated files: distinct paths, any contents
BatchesOf(sources) ==
    UNION {{[i \in 1..n |-> [path |-> i, source |-> srcs[i]]] : srcs \in [1..n -> sources]} :
           n \in 0..MaxFiles}

Batches == BatchesOf(Sources)

(***************************************************************************)
(* The extraction loop (class_name, methods, properties, is_controller).   *)
(***************************************************************************)
NoFacts == [class_name |-> <<>>, methods |-> <<>>, properties |-> <<>>, is_controller |-> FALSE]

\* the class facts taken from the first class declaration met
ExtractNode_first_class(facts, node) ==
    IF node.kind = "ClassDeclaration"
    THEN IF facts.class_name = <<>>
         THEN [facts EXCEPT !.class_name = node.name,
                            !.is_controller = is_controller_command(node)]
         ELSE facts
    ELSE IF node.kind = "MethodDeclaration"
    THEN [facts EXCEPT !.methods = Append(@, node)]
    ELSE IF node.kind = "FieldDeclaration"
    THEN [facts EXCEPT !.properties = @ \o node.declarators]
    ELSE facts

ExtractNode(facts, node) ==
    IF node.kind = "ClassDeclaration"
    THEN [facts EXCEPT !.class_name = node.name,
                       !.is_controller = is_controller_command(node)]
    ELSE IF node.kind = "MethodDeclaration"
    THEN [facts EXCEPT !.methods = Append(@, node)]
    ELSE IF node.kind = "FieldDeclaration"
    THEN [facts EXCEPT !.properties = @ \o node.declarators]
    ELSE facts

RECURSIVE ExtractFrom(_, _)
ExtractFrom(facts, nodes) ==
    IF nodes = <<>> THEN facts
    ELSE ExtractFrom(ExtractNode(facts, Head(nodes)), Tail(nodes))

ExtractFacts(tree) == ExtractFrom(NoFacts, walk_tree(tree))

\* the error texts
NotCommandError(cls_name) ==
    <<"Class ">> \o cls_name
    \o <<" does not extend ControllerCommandImpl or implement ControllerCommand">>
ErrorEntry(file, message) == [file |-> file, error |-> message]
SuccessEntry(file, cls_name) == [file |-> file, status |-> "success", class_name |-> cls_name]

(***************************************************************************)
(* The string tools, each one call.                                        *)
(***************************************************************************)
ErrorResponse(message) == [error |-> message]

\* the try block of convert_hcl_to_sap and the result it returns
GenerateAll(facts) ==
    LET use == needs_facade(facts.methods, facts.properties)
        impex == generate_impex(facts.class_name, facts.properties)
    IN IF "raised" \in DOMAIN impex
       THEN ErrorResponse(<<"Generation failed: ", impex.raised>>)
       ELSE [input_type |-> "ControllerCommand",
             spring_controller |->
                 generate_spring_controller(facts.class_name, facts.methods,
                                            facts.properties, use),
             spring_facade |->
                 IF use
                 THEN generate_spring_facade(facts.class_name, facts.methods, facts.properties)
                 ELSE EmptyText,
             spring_service |-> generate_spring_service(facts.class_name, facts.methods),
             spring_config |-> spring_config(facts.class_name, facts.properties, use),
             impex |-> impex.text]

convert_hcl_to_sap_no_family_check(code, parsed) ==
    IF "raised" \in DOMAIN parsed THEN parsed
    ELSE IF ~Truthy(parsed.tree)
    THEN ErrorResponse(<<"Invalid HCL Java code: ", "hcl_code[:50]", "...">>)
    ELSE LET facts == ExtractFacts(parsed.tree) IN
         IF facts.class_name = <<>> THEN ErrorResponse(<<"No class found in HCL code">>)
         ELSE GenerateAll(facts)

convert_hcl_to_sap(code, parsed) ==
    IF "raised" \in DOMAIN parsed THEN parsed
    ELSE IF ~Truthy(parsed.tree)
    THEN ErrorResponse(<<"Invalid HCL Java code: ", "hcl_code[:50]", "...">>)
    ELSE LET facts == ExtractFacts(parsed.tree) IN
         IF facts.class_name = <<>> THEN ErrorResponse(<<"No class found in HCL code">>)
         ELSE IF ~facts.is_controller THEN ErrorResponse(NotCommandError(facts.class_name))
         ELSE GenerateAll(facts)

\* mcp_hcl_to_sap.py
convert_hcl_to_sap_v1(code, parsed) ==
    IF "raised" \in DOMAIN parsed THEN parsed
    ELSE IF ~Truthy(parsed.tree)
    THEN ErrorResponse(<<"Invalid HCL Java code: ", "hcl_code[:50]", "...">>)
    ELSE LET facts == ExtractFacts(parsed.tree) IN
         IF facts.class_name = <<>> THEN ErrorResponse(<<"No class found in HCL code">>)
         ELSE IF ~facts.is_controller THEN ErrorResponse(NotCommandError(facts.class_name))
         ELSE OutputDataV1(facts.class_name, facts.methods, facts.properties)

(***************************************************************************)
(* The tools' state.                                                       *)
(***************************************************************************)
\* an invocation that has emitted nothing and has not returned
NewRun == [emitted |-> <<>>, ret |-> <<>>, results |-> <<>>, fs |-> <<>>]

LocalsUnset ==
    /\ java_tree = NoneValue
    /\ class_name = <<>>
    /\ methods = <<>>
    /\ properties = <<>>
    /\ is_controller = FALSE
    /\ use_facade = FALSE
    /\ output_data = <<>>

\* no tool is running (the helpers are studied alone)
ToolIdle ==
    /\ tool = "none" /\ input_dir = "dir" /\ java_files = <<>> /\ idx = 0 /\ pc = "idle"
    /\ hcl_code = Unset /\ LocalsUnset
    /\ results = <<>> /\ fs = <<>> /\ ret = <<>> /\ stages = <<>> /\ written = <<>>
    /\ runs = <<NewRun>>

InitOver(sources) ==
    /\ call = [fn |-> "none"] /\ out = <<>>
    /\ \/ /\ tool = "convert_hcl_to_sap_files"
          /\ input_dir \in {"missing", "file", "dir"}
          /\ java_files \in BatchesOf(sources)
          /\ input_dir # "dir" => java_files = <<>>
          /\ hcl_code = Unset
       \/ /\ tool \in {"convert_hcl_to_sap", "convert_hcl_to_sap_v1"}
          /\ input_dir = "dir" /\ java_files = <<>>
          /\ hcl_code \in sources
    /\ idx = 0 /\ pc = "start"
    /\ LocalsUnset
    /\ results = <<>> /\ fs = <<>> /\ ret = <<>>
    /\ stages = [i \in 1..Len(java_files) |-> <<>>]
    /\ written = <<>>
    /\ runs = <<NewRun>>

Init == InitOver(Sources)

file_path == java_files[idx].path

EnterStages(ss) == stages' = [stages EXCEPT ![idx] = @ \o ss]

\* results.append(entry), then the next iteration of the for loop
AppendAndContinue(entry) ==
    /\ results' = Append(results, entry)
    /\ IF idx < Len(java_files)
       THEN idx' = idx + 1 /\ pc' = "read"
       ELSE idx' = idx /\ pc' = "return"

\* the outer handler: except Exception as e
FileProcessingFailed_not_recorded(e) ==
    /\ results' = results
    /\ IF idx < Len(java_files)
       THEN idx' = idx + 1 /\ pc' = "read"
       ELSE idx' = idx /\ pc' = "return"

FileProcessingFailed(e) ==
    AppendAndContinue(ErrorEntry(file_path, <<"File processing failed: ", e>>))

\* the inner handler around generation and save_output_files
ConversionFailed(e) ==
    /\ AppendAndContinue(ErrorEntry(file_path, <<"Conversion failed: ", e>>))
    /\ EnterStages(<<"Rejected">>)

\* the directory checks, the glob and results = []
StartFiles ==
    /\ pc = "start" /\ tool = "convert_hcl_to_sap_files"
    /\ IF input_dir = "missing"
       THEN /\ ret' = <<ErrorResponse(<<"Input directory ", "input_dir", " does not exist">>)>>
            /\ pc' = "done" /\ idx' = idx
       ELSE IF input_dir = "file"
       THEN /\ ret' = <<ErrorResponse(<<"Input path ", "input_dir", " is not a directory">>)>>
            /\ pc' = "done" /\ idx' = idx
       ELSE IF java_files = <<>>
       THEN /\ ret' = <<[results |-> <<>>,
                        warning |-> <<"No Java files found in ", "input_dir">>]>>
            /\ pc' = "done" /\ idx' = idx
       ELSE /\ ret' = ret /\ pc' = "read" /\ idx' = 1
    /\ UNCHANGED <<fnVars, runs, locals, tool, input_dir, java_files, results, fs, stages, written>>

\* with open(file_path, "r") as f: hcl_code = f.read()
ReadFile ==
    /\ pc = "read"
    /\ \/ /\ hcl_code' = java_files[idx].source
          /\ pc' = "parse"
          /\ UNCHANGED <<idx, results, stages>>
       \/ /\ FileProcessingFailed("OSError")
          /\ EnterStages(<<"Rejected">>)
          /\ UNCHANGED hcl_code
    /\ UNCHANGED <<fnVars, runs, tool, input_dir, java_files, java_tree, class_name, methods,
                   properties, is_controller, use_facade, output_data, fs, ret, written>>

\* java_tree = parse_hcl_java_code(hcl_code)
ParseHclJavaCode ==
    /\ pc = "parse"
    /\ \E parsed \in parse_hcl_java_code(hcl_code) :
          IF "raised" \in DOMAIN parsed
          THEN /\ FileProcessingFailed(parsed.raised)
               /\ EnterStages(<<"ParseFailed", "Rejected">>)
               /\ UNCHANGED java_tree
          ELSE /\ java_tree' = parsed.tree
               /\ EnterStages(IF Truthy(parsed.tree) THEN <<"ParseOK">> ELSE <<"ParseFailed">>)
               /\ pc' = "checkTree"
               /\ UNCHANGED <<idx, results>>
    /\ UNCHANGED <<fnVars, runs, tool, input_dir, java_files, hcl_code, class_name, methods,
                   properties, is_controller, use_facade, output_data, fs, ret, written>>

\* if not java_tree: ... continue
CheckTree ==
    /\ pc = "checkTree"
    /\ IF ~Truthy(java_tree)
       THEN /\ AppendAndContinue(ErrorEntry(file_path, <<"Invalid Java code">>))
            /\ EnterStages(<<"Rejected">>)
       ELSE pc' = "extract" /\ UNCHANGED <<idx, results, stages>>
    /\ UNCHANGED <<fnVars, runs, locals, tool, input_dir, java_files, fs, ret, written>>

\* the extraction loop without lines 360-363: the four locals keep the values
\* the previous unit left in them
Extract_keeps_locals ==
    /\ pc = "extract"
    /\ LET facts == ExtractFrom([class_name |-> class_name, methods |-> methods,
                                 properties |-> properties,
                                 is_controller |-> is_controller],
                                walk_tree(java_tree)) IN
       /\ class_name' = facts.class_name
       /\ methods' = facts.methods
       /\ properties' = facts.properties
       /\ is_controller' = facts.is_controller
       /\ EnterStages(IF facts.class_name = <<>> THEN <<"NoClass">>
                      ELSE IF facts.is_controller THEN <<"ClassFound(command family)">>
                      ELSE <<"ClassFound(not command family)">>)
    /\ pc' = "checkClass"
    /\ UNCHANGED <<fnVars, runs, tool, input_dir, java_files, idx, hcl_code, java_tree,
                   use_facade, output_data, results, fs, ret, written>>

\* class_name = None ... for path, node in java_tree: ...
Extract ==
    /\ pc = "extract"
    /\ LET facts == ExtractFacts(java_tree) IN
       /\ class_name' = facts.class_name
       /\ methods' = facts.methods
       /\ properties' = facts.properties
       /\ is_controller' = facts.is_controller
       /\ EnterStages(IF facts.class_name = <<>> THEN <<"NoClass">>
                      ELSE IF facts.is_controller THEN <<"ClassFound(command family)">>
                      ELSE <<"ClassFound(not command family)">>)
    /\ pc' = "checkClass"
    /\ UNCHANGED <<fnVars, runs, tool, input_dir, java_files, idx, hcl_code, java_tree, use_facade,
                   output_data, results, fs, ret, written>>

\* if not class_name: ... continue / if not is_controller: ... continue
CheckClass_no_family_check ==
    /\ pc = "checkClass"
    /\ IF class_name = <<>>
       THEN /\ AppendAndContinue(ErrorEntry(file_path, <<"No class found in HCL code">>))
            /\ EnterStages(<<"Rejected">>)
       ELSE pc' = "classify" /\ UNCHANGED <<idx, results, stages>>
    /\ UNCHANGED <<fnVars, runs, locals, tool, input_dir, java_files, fs, ret, written>>

\* the two checks in the other order
CheckClass_family_first ==
    /\ pc = "checkClass"
    /\ IF ~is_controller
       THEN /\ AppendAndContinue(ErrorEntry(file_path, NotCommandError(class_name)))
            /\ EnterStages(<<"Rejected">>)
       ELSE IF class_name = <<>>
       THEN /\ AppendAndContinue(ErrorEntry(file_path, <<"No class found in HCL code">>))
            /\ EnterStages(<<"Rejected">>)
       ELSE pc' = "classify" /\ UNCHANGED <<idx, results, stages>>
    /\ UNCHANGED <<fnVars, runs, locals, tool, input_dir, java_files, fs, ret, written>>

CheckClass ==
    /\ pc = "checkClass"
    /\ IF class_name = <<>>
       THEN /\ AppendAndContinue(ErrorEntry(file_path, <<"No class found in HCL code">>))
            /\ EnterStages(<<"Rejected">>)
       ELSE IF ~is_controller
       THEN /\ AppendAndContinue(ErrorEntry(file_path, NotCommandError(class_name)))
            /\ EnterStages(<<"Rejected">>)
       ELSE pc' = "classify" /\ UNCHANGED <<idx, results, stages>>
    /\ UNCHANGED <<fnVars, runs, locals, tool, input_dir, java_files, fs, ret, written>>

\* use_facade = needs_facade(methods, properties)
Classify ==
    /\ pc = "classify"
    /\ use_facade' = needs_facade(methods, properties)
    /\ EnterStages(<<"Classified">>)
    /\ pc' = "emit"
    /\ UNCHANGED <<fnVars, runs, tool, input_dir, java_files, idx, hcl_code, java_tree, class_name,
                   methods, properties, is_controller, output_data, results, fs, ret, written>>

\* output_data = {...}
Emit ==
    /\ pc = "emit"
    /\ output_data' = OutputData(class_name, methods, properties, use_facade)
    /\ EnterStages(<<"Emitted">>)
    /\ runs' = [runs EXCEPT ![Len(runs)].emitted =
                    Append(@, [unit |-> idx, use_facade |-> use_facade,
                               output_data |-> output_data'])]
    /\ pc' = "mkdir"
    /\ UNCHANGED <<fnVars, tool, input_dir, java_files, idx, hcl_code, java_tree, class_name,
                   methods, properties, is_controller, use_facade, results, fs, ret, written>>

\* save_output_files: output_dir_path.mkdir(parents=True, exist_ok=True)
Mkdir ==
    /\ pc = "mkdir"
    /\ \/ pc' = "writeController" /\ UNCHANGED <<idx, results, stages>>
       \/ ConversionFailed("OSError")
    /\ UNCHANGED <<fnVars, runs, locals, tool, input_dir, java_files, fs, ret, written>>

FileName(name, artifact) == <<name, artifact>>

\* the file opened in append mode
Stored_append(files, name, text) ==
    [f \in DOMAIN files \cup {name} |->
        IF f = name THEN (IF f \in DOMAIN files THEN files[f] ELSE <<>>) \o text
        ELSE files[f]]

Stored(files, name, text) ==
    [f \in DOMAIN files \cup {name} |-> IF f = name THEN text ELSE files[f]]

\* the write whose failure is logged and not raised again
WriteFile_swallows_error(artifact, key, next) ==
    LET name == FileName(class_name, artifact) IN
    \/ /\ fs' = Stored(fs, name, output_data[key])
       /\ written' = Append(written, [unit |-> idx, file |-> name])
       /\ pc' = next
       /\ UNCHANGED <<idx, results, stages>>
    \/ /\ fs' = Stored(fs, name, EmptyText)
       /\ written' = Append(written, [unit |-> idx, file |-> name])
       /\ pc' = next
       /\ UNCHANGED <<idx, results, stages>>
    \/ /\ UNCHANGED <<fs, written>>
       /\ pc' = next
       /\ UNCHANGED <<idx, results, stages>>

\* with open(<class_name><artifact>.java, "w") as f: f.write(output_data[key])
\* open raises and leaves the directory as it was, or creates/truncates the
\* file and write stores the text or raises; a raise is logged, re-raised and
\* lands in the inner handler.
WriteFile(artifact, key, next) ==
    LET name == FileName(class_name, artifact) IN
    \/ /\ fs' = Stored(fs, name, output_data[key])
       /\ written' = Append(written, [unit |-> idx, file |-> name])
       /\ pc' = next
       /\ UNCHANGED <<idx, results, stages>>
    \/ /\ fs' = Stored(fs, name, EmptyText)
       /\ written' = Append(written, [unit |-> idx, file |-> name])
       /\ ConversionFailed("OSError")
    \/ /\ UNCHANGED <<fs, written>>
       /\ ConversionFailed("OSError")

WriteController ==
    /\ pc = "writeController"
    /\ WriteFile("Controller", "spring_controller", "writeFacade")
    /\ UNCHANGED <<fnVars, runs, locals, tool, input_dir, java_files, ret>>

\* if output_data.get("spring_facade"):
WriteFacade ==
    /\ pc = "writeFacade"
    /\ IF output_data.spring_facade # EmptyText
       THEN WriteFile("Facade", "spring_facade", "writeService")
       ELSE pc' = "writeService" /\ UNCHANGED <<idx, results, stages, fs, written>>
    /\ UNCHANGED <<fnVars, runs, locals, tool, input_dir, java_files, ret>>

WriteService ==
    /\ pc = "writeService"
    /\ WriteFile("Service", "spring_service", "writeConfig")
    /\ UNCHANGED <<fnVars, runs, locals, tool, input_dir, java_files, ret>>

WriteConfig ==
    /\ pc = "writeConfig"
    /\ WriteFile("Config", "spring_config", "saved")
    /\ UNCHANGED <<fnVars, runs, locals, tool, input_dir, java_files, ret>>

\* save_output_files returned:
\* results.append({"file": ..., "status": "success", "class_name": ...})
AppendSuccess ==
    /\ pc = "saved"
    /\ AppendAndContinue(SuccessEntry(file_path, class_name))
    /\ EnterStages(<<"Written">>)
    /\ UNCHANGED <<fnVars, runs, locals, tool, input_dir, java_files, fs, ret, written>>

\* the loop's exit that never reaches the return statement
Return_never ==
    /\ pc = "return"
    /\ UNCHANGED vars

\* return json.dumps({"results": results})
Return ==
    /\ pc = "return"
    /\ ret' = <<[results |-> results]>>
    /\ pc' = "done"
    /\ UNCHANGED <<fnVars, runs, locals, tool, input_dir, java_files, idx, results, fs, stages,
                   written>>

\* the string tool of mcp_hcl_to_sap_project_up.py
ConvertHclToSap ==
    /\ pc = "start" /\ tool = "convert_hcl_to_sap"
    /\ \E parsed \in parse_hcl_java_code(hcl_code) :
          ret' = <<convert_hcl_to_sap(hcl_code, parsed)>>
    /\ pc' = "done"
    /\ UNCHANGED <<fnVars, runs, locals, tool, input_dir, java_files, idx, results, fs, stages,
                   written>>

\* the string tool of mcp_hcl_to_sap.py
ConvertHclToSapV1 ==
    /\ pc = "start" /\ tool = "convert_hcl_to_sap_v1"
    /\ \E parsed \in parse_hcl_java_code(hcl_code) :
          ret' = <<convert_hcl_to_sap_v1(hcl_code, parsed)>>
    /\ pc' = "done"
    /\ UNCHANGED <<fnVars, runs, locals, tool, input_dir, java_files, idx, results, fs, stages,
                   written>>

Next ==
    \/ StartFiles \/ ReadFile \/ ParseHclJavaCode \/ CheckTree \/ Extract \/ CheckClass
    \/ Classify \/ Emit \/ Mkdir \/ WriteController \/ WriteFacade \/ WriteService
    \/ WriteConfig \/ AppendSuccess \/ Return \/ ConvertHclToSap \/ ConvertHclToSapV1

Spec == Init /\ [][Next]_vars

(***************************************************************************)
(* The tools invoked again on the same inputs: each MCP tool can be called *)
(* any number of times, and the output directory keeps what the earlier    *)
(* invocations left in it.                                                 *)
(***************************************************************************)
MaxRuns == 2

Rerun ==
    /\ pc = "done" /\ Len(runs) < MaxRuns
    /\ runs' = Append([runs EXCEPT ![Len(runs)].ret = ret,
                                   ![Len(runs)].results = results,
                                   ![Len(runs)].fs = fs],
                      NewRun)
    /\ pc' = "start" /\ idx' = 0 /\ results' = <<>> /\ ret' = <<>>
    /\ stages' = [i \in DOMAIN stages |-> <<>>]
    /\ written' = <<>>
    /\ hcl_code' = IF tool = "convert_hcl_to_sap_files" THEN Unset ELSE hcl_code
    /\ java_tree' = NoneValue /\ class_name' = <<>> /\ methods' = <<>> /\ properties' = <<>>
    /\ is_controller' = FALSE /\ use_facade' = FALSE /\ output_data' = <<>>
    /\ UNCHANGED <<fnVars, tool, input_dir, java_files, fs>>

NextRepeat == Next \/ Rerun

\* the units given to the repeated invocations: two of the same class name
\* (one with a facade, one without), one of another name, two rejected ones
RepeatSources ==
    {SyntaxErrorUnit, NotCommandUnit, FacadeUnit, PlainUnit, HelperThenCommandUnit}

InitRepeat == InitOver(RepeatSources)

SpecRepeat == InitRepeat /\ [][NextRepeat]_vars

(***************************************************************************)
(* Specification of is_controller_command on every class head.             *)
(***************************************************************************)


InitClassifier ==
    /\ call \in {[fn |-> "is_controller_command", node |-> c] : c \in ClassHeads}
    /\ out = <<>>
    /\ ToolIdle

CallIsControllerCommand ==
    /\ call.fn = "is_controller_command"
    /\ out = <<>>
    /\ out' = <<is_controller_command(call.node)>>
    /\ UNCHANGED <<call, locals, toolVars>>

NextClassifier == CallIsControllerCommand

SpecClassifier == InitClassifier /\ [][NextClassifier]_vars

\* C1: is_controller_command returns true exactly when the immediate
\* implements list holds a type named "ControllerCommand" or the immediate
\* extends reference is named "ControllerCommandImpl"; false otherwise,
\* absent clauses included.
C1_ClassifierIff ==
    (call.fn = "is_controller_command" /\ out # <<>>) =>
        /\ out[1] \in BOOLEAN
        /\ out[1] <=>
            ("ControllerCommand" \in {call.node.implements[i] : i \in DOMAIN call.node.implements}
             \/ call.node.extends = <<"ControllerCommandImpl">>)

C1_Witness ==
    /\ call.fn = "is_controller_command"
    /\ out = <<TRUE>>
    /\ call.node.implements = <<"Runnable", "ControllerCommand">>
    /\ call.node.extends = <<>>
(***************************************************************************)
(* Specification of needs_facade on the method lists extracted from a     *)
(* class, and of traverse_ast on a method.                                 *)
(***************************************************************************)
\* the nodes traverse_ast is started on: a method and its statements
TraverseInputs ==
    {MethodDeclaration("performExecute", s) : s \in SeqsUpTo(Stmts, MaxStmts)}

InitFacade ==
    /\ call \in {[fn |-> "needs_facade",
                  methods |-> ExtractMethods(ClassDeclaration(<<"Cmd">>, <<>>, <<>>, body))] :
                    body \in MethodLists}
               \cup {[fn |-> "traverse_ast", node |-> n] : n \in TraverseInputs}
    /\ out = <<>>
    /\ ToolIdle

CallNeedsFacade ==
    /\ call.fn = "needs_facade"
    /\ out = <<>>
    /\ out' = <<needs_facade(call.methods, <<>>)>>
    /\ UNCHANGED <<call, locals, toolVars>>

\* traverse_ast(node, visitor_func) with a visitor that records its argument
CallTraverseAst ==
    /\ call.fn = "traverse_ast"
    /\ out = <<>>
    /\ out' = <<traverse_ast(call.node)>>
    /\ UNCHANGED <<call, locals, toolVars>>

NextFacade == CallNeedsFacade \/ CallTraverseAst

SpecFacade == InitFacade /\ [][NextFacade]_vars

\* The nodes in the subtree of a method named performExecute, each once, in
\* the tree's order, whatever the child container they hang in.
RECURSIVE EntryNodes(_, _)
RECURSIVE EntryNodesOfAll(_, _)
EntryNodesOfAll(children, inside) ==
    IF children = <<>> THEN <<>>
    ELSE EntryNodes(Head(children), inside) \o EntryNodesOfAll(Tail(children), inside)

EntryNodes(v, inside) ==
    IF v.kind = "None" \/ IsScalar(v) THEN <<>>
    ELSE IF v.kind = "list" THEN EntryNodesOfAll(v.children, inside)
    ELSE LET in == inside \/ (v.kind = "MethodDeclaration" /\ v.name = "performExecute") IN
         (IF in THEN <<v>> ELSE <<>>) \o EntryNodesOfAll(v.children, in)

\* the entry nodes of an extracted method list: those of its methods that
\* lie in no other method of the list
RECURSIVE EntryNodesOfMethods(_)
EntryNodesOfMethods(method_list) ==
    IF method_list = <<>> THEN <<>>
    ELSE LET m == Head(method_list)
             inner == Len(ExtractMethods(m)) - 1
         IN EntryNodes(m, FALSE)
            \o EntryNodesOfMethods(SubSeq(method_list, 2 + inner, Len(method_list)))

IsRespPut(n) == n.kind = "MethodInvocation" /\ n.member = "put" /\ n.qualifier = "resp"

hasConditional(nodes) == \E i \in DOMAIN nodes : nodes[i].kind = "IfStatement"
responseWriteCount(nodes) == Cardinality({i \in DOMAIN nodes : IsRespPut(nodes[i])})
usesExecutionContext(nodes) ==
    \E i \in DOMAIN nodes :
        nodes[i].kind = "MethodInvocation" /\ nodes[i].qualifier = "commandContext"

\* C2: needs_facade returns exactly hasConditional \/ responseWriteCount > 1
\* \/ usesExecutionContext over the nodes of the method named performExecute
\* (false when there is none, false for a single resp.put and nothing else).
C2_NeedsFacadeExact ==
    (call.fn = "needs_facade" /\ out # <<>>) =>
        LET nodes == EntryNodesOfMethods(call.methods) IN
        out[1] <=> (hasConditional(nodes) \/ responseWriteCount(nodes) > 1
                    \/ usesExecutionContext(nodes))

\* C3: an if-statement anywhere below a method named performExecute, at any
\* depth and through any child container, makes needs_facade return true.
C3_IfForcesFacade ==
    (call.fn = "needs_facade" /\ out # <<>>
     /\ hasConditional(EntryNodesOfMethods(call.methods))) => out[1] = TRUE
(***************************************************************************)
(* Specification of the emission step: the texts built from a class name, *)
(* a method list, a field-name list and the facade decision.               *)
(***************************************************************************)
InitEmit ==
    /\ call \in {[fn |-> "output_data", class_name |-> cn, methods |-> ms,
                  properties |-> ps, use_facade |-> uf] :
                    cn \in ClassNames, ms \in MethodHeads,
                    ps \in PropertyLists, uf \in BOOLEAN}
               \cup {[fn |-> "output_data_v1", class_name |-> cn,
                       methods |-> ms, properties |-> ps] :
                         cn \in ClassNames, ms \in MethodHeads, ps \in PropertyLists}
    /\ out = <<>>
    /\ ToolIdle

CallOutputData ==
    /\ call.fn = "output_data"
    /\ out = <<>>
    /\ out' = <<OutputData(call.class_name, call.methods, call.properties, call.use_facade)>>
    /\ UNCHANGED <<call, locals, toolVars>>

\* mcp_hcl_to_sap.py: the texts convert_hcl_to_sap returns
CallOutputDataV1 ==
    /\ call.fn = "output_data_v1"
    /\ out = <<>>
    /\ out' = <<OutputDataV1(call.class_name, call.methods, call.properties)>>
    /\ UNCHANGED <<call, locals, toolVars>>

NextEmit == CallOutputData \/ CallOutputDataV1

SpecEmit == InitEmit /\ [][NextEmit]_vars

\* pat occurs in a line of text
Occurs(text, pat) ==
    \E i \in DOMAIN text : \E k \in 1..(Len(text[i]) - Len(pat) + 1) :
        SubSeq(text[i], k, k + Len(pat) - 1) = pat
CountLines(text, line) == Cardinality({i \in DOMAIN text : text[i] = line})
CountNamed(method_list, name) == Cardinality({i \in DOMAIN method_list : method_list[i].name = name})

\* the lines of a controller that declare, inject and call a collaborator
DeclaresLayer(text, cn, layer) ==
    CountLines(text, <<"    private final ">> \o cn \o <<layer, " ">> \o lower(cn) \o <<layer, ";">>) = 1
InjectsLayer(text, cn, layer) ==
    /\ CountLines(text, <<"    public ">> \o cn \o <<"Controller", "(">> \o cn \o <<layer, " ">>
                          \o lower(cn) \o <<layer, ") ", "{">>) = 1
    /\ CountLines(text, <<"        this.">> \o lower(cn) \o <<layer, " = ">>
                          \o lower(cn) \o <<layer, ";">>) = 1
CallsOf(text, cn, layer) ==
    CountLines(text, <<"        return ">> \o lower(cn) \o <<layer, ".execute(request);">>)
References(text, cn, layer) ==
    Occurs(text, cn \o <<layer>>) \/ Occurs(text, lower(cn) \o <<layer>>)
Other(layer) == IF layer = "Facade" THEN "Service" ELSE "Facade"

\* C9 as stated: for every class name and method list the controller
\* declares, injects and calls exactly one collaborator, the facade when
\* use_facade and the service otherwise, and never references the other.
C9_ControllerCallsOneLayer ==
    (call.fn = "output_data" /\ out # <<>>) =>
        LET text == out[1].spring_controller
            layer == Layer(call.use_facade)
        IN /\ DeclaresLayer(text, call.class_name, layer)
           /\ InjectsLayer(text, call.class_name, layer)
           /\ CallsOf(text, call.class_name, layer) >= 1
           /\ ~References(text, call.class_name, Other(layer))

\* C9 amended: the controller declares and injects exactly one collaborator
\* (facade when use_facade, service otherwise), calls it once per method
\* named performExecute (not at all when there is none), never references
\* the other one, and names the facade exactly when the facade text of the
\* same bundle is non-empty.
C9_ControllerOneLayer ==
    (call.fn = "output_data" /\ out # <<>>) =>
        LET text == out[1].spring_controller
            layer == Layer(call.use_facade)
        IN /\ DeclaresLayer(text, call.class_name, layer)
           /\ InjectsLayer(text, call.class_name, layer)
           /\ CallsOf(text, call.class_name, layer)
                = CountNamed(call.methods, "performExecute")
           /\ ~References(text, call.class_name, Other(layer))
           /\ References(text, call.class_name, "Facade")
                <=> (out[1].spring_facade # EmptyText)

C9_Witness ==
    /\ call.fn = "output_data" /\ out # <<>>
    /\ call.use_facade
    /\ call.class_name = <<"Order", "Service">>
    /\ CountNamed(call.methods, "performExecute") = 2
    /\ CallsOf(out[1].spring_controller, call.class_name, "Facade") = 2
(***************************************************************************)
(* Properties of convert_hcl_to_sap_files and convert_hcl_to_sap.          *)
(***************************************************************************)
IsPrefix(s, t) == Len(s) <= Len(t) /\ SubSeq(t, 1, Len(s)) = s
NoRepeat(s) == \A i, j \in DOMAIN s : s[i] = s[j] => i = j
Before(s, a, b) == \E i, j \in DOMAIN s : i < j /\ s[i] = a /\ s[j] = b

Units == DOMAIN stages
\* the loop is past unit i
Processed(i) == i < idx \/ (i = idx /\ pc \in {"return", "done"})
IsError(entry) == "error" \in DOMAIN entry
IsSuccess(entry) == "status" \in DOMAIN entry /\ entry.status = "success"
WrittenBy(i) == {k \in DOMAIN written : written[k].unit = i}
FactsOf(source) == ExtractFacts(source.tree)

PipelinePaths ==
    {<<"ParseFailed", "Rejected">>,
     <<"ParseOK", "NoClass", "Rejected">>,
     <<"ParseOK", "ClassFound(not command family)", "Rejected">>,
     <<"ParseOK", "ClassFound(command family)", "Classified", "Emitted", "Written">>}

\* a unit whose file cannot be read is rejected at once; a unit whose output
\* directory or files cannot be written is rejected after emission
FailurePaths ==
    {<<"Rejected">>,
     <<"ParseOK", "ClassFound(command family)", "Classified", "Emitted", "Rejected">>}

FollowsPaths(paths) ==
    \A i \in Units :
        /\ \E p \in paths : IsPrefix(stages[i], p)
        /\ Processed(i) <=> stages[i] \in paths

\* C4 as stated: each unit follows only ParseFailed->Rejected,
\* ParseOK->NoClass->Rejected, ParseOK->ClassFound(not command family)->
\* Rejected or ParseOK->ClassFound(command family)->Classified->Emitted->
\* Written, and ends in Rejected or Written.
C4_OnlySpecPaths == FollowsPaths(PipelinePaths)

\* C4 amended: besides those four paths a unit may go straight to Rejected
\* (its file cannot be read) and from Emitted to Rejected (the output
\* directory or one of its files cannot be written);
\* the terminal states are Rejected and Written, no state is entered twice,
\* and Written is reached only through Classified and then Emitted.
C4_PipelinePaths ==
    /\ FollowsPaths(PipelinePaths \cup FailurePaths)
    /\ \A i \in Units :
        /\ NoRepeat(stages[i])
        /\ Processed(i) => stages[i][Len(stages[i])] \in {"Rejected", "Written"}
        /\ (\E k \in DOMAIN stages[i] : stages[i][k] = "Written") =>
              /\ Before(stages[i], "Classified", "Emitted")
              /\ Before(stages[i], "Emitted", "Written")

C4_Witness ==
    /\ pc = "done" /\ Len(java_files) = 2
    /\ stages[1] = <<"ParseOK", "ClassFound(command family)", "Classified", "Emitted", "Rejected">>
    /\ stages[2] = <<"ParseOK", "ClassFound(command family)", "Classified", "Emitted", "Written">>

\* C5: the report of a batch of n files has exactly n entries, the i-th for
\* the i-th file, each a success entry or an error entry and never both;
\* a failing unit does not stop the later ones and no exception escapes.
C5_OneEntryPerFile ==
    tool = "convert_hcl_to_sap_files" =>
        /\ \A i \in Units : Processed(i) <=> i \in DOMAIN results
        /\ \A i \in DOMAIN results :
              /\ results[i].file = java_files[i].path
              /\ IsError(results[i]) # IsSuccess(results[i])
              /\ IsError(results[i]) # ("status" \in DOMAIN results[i])
        /\ pc = "done" /\ input_dir = "dir" =>
              /\ "raised" \notin DOMAIN ret[1]
              /\ ret[1].results = results
              /\ Len(ret[1].results) = Len(java_files)

C5_Witness ==
    /\ tool = "convert_hcl_to_sap_files" /\ pc = "done" /\ Len(java_files) = 2
    /\ IsError(ret[1].results[1])
    /\ ret[1].results[1].error = <<"File processing failed: ", "LexerError">>
    /\ IsSuccess(ret[1].results[2])

\* C6: a unit whose report entry is an error entry has had no output file
\* written during the run.
C6_NoFilesForRejected ==
    \A i \in DOMAIN results : IsError(results[i]) => WrittenBy(i) = {}

HasTexts(response) == "spring_controller" \in DOMAIN response
Accepts(source) ==
    source.kind = "java" /\ FactsOf(source).class_name # <<>> /\ FactsOf(source).is_controller

\* C7: in both tools the generators run (and files are written) for a unit
\* only if a class name was found and it is in the command family;
\* otherwise the unit is rejected with an error and nothing is emitted.
C7_EmitOnlyCommandClasses ==
    /\ pc \in {"classify", "emit", "mkdir", "writeController", "writeFacade",
               "writeService", "writeConfig", "saved"}
          => class_name # <<>> /\ is_controller /\ Accepts(java_files[idx].source)
    /\ \A i \in Units :
          /\ (WrittenBy(i) # {} \/ \E k \in DOMAIN stages[i] : stages[i][k] \in {"Classified", "Emitted"})
                => Accepts(java_files[i].source)
          /\ (Processed(i) /\ ~Accepts(java_files[i].source))
                => IsError(results[i]) /\ WrittenBy(i) = {}
    /\ (pc = "done" /\ tool \in {"convert_hcl_to_sap", "convert_hcl_to_sap_v1"}) =>
          /\ HasTexts(ret[1]) => Accepts(hcl_code)
          /\ (hcl_code.kind = "java" /\ ~Accepts(hcl_code))
                => IsError(ret[1]) /\ DOMAIN ret[1] = {"error"}

C7_Witness ==
    /\ pc = "saved" /\ idx = 2
    /\ java_files[1].source = NotCommandUnit
    /\ IsError(results[1]) /\ WrittenBy(1) = {}
    /\ WrittenBy(2) # {}

NeedsFacadeOf(source) == needs_facade(FactsOf(source).methods, FactsOf(source).properties)
FacadeWrittenBy(i) == \E k \in WrittenBy(i) : written[k].file[2] = "Facade"

\* C8: the facade text is non-empty and a <ClassName>Facade file is written
\* for an accepted unit exactly when needs_facade returned true for it.
C8_FacadeIffNeeded ==
    /\ pc \in {"mkdir", "writeController", "writeFacade", "writeService", "writeConfig", "saved"}
          => /\ use_facade = NeedsFacadeOf(java_files[idx].source)
             /\ (output_data.spring_facade # EmptyText) <=> use_facade
    /\ pc \in {"writeService", "writeConfig", "saved"} => (FacadeWrittenBy(idx) <=> use_facade)
    /\ \A i \in Units :
          /\ FacadeWrittenBy(i) => NeedsFacadeOf(java_files[i].source)
          /\ (i \in DOMAIN results /\ IsSuccess(results[i]))
                => (FacadeWrittenBy(i) <=> NeedsFacadeOf(java_files[i].source))

C8_Witness ==
    /\ pc = "done" /\ Len(results) = 2
    /\ IsSuccess(results[1]) /\ FacadeWrittenBy(1)
    /\ IsSuccess(results[2]) /\ ~FacadeWrittenBy(2)

RECURSIVE BeanLines(_)
BeanLines(text) ==
    IF text = <<>> THEN <<>>
    ELSE (IF Head(text) # <<>> /\ Head(text)[1] = "<bean id='" THEN <<Head(text)>> ELSE <<>>)
         \o BeanLines(Tail(text))

ExpectedBeans(cn, facade) ==
    << <<"<bean id='">> \o lower(cn) \o <<"Service", "' class='com.example.">> \o cn
         \o <<"Service", "'/>">> >>
    \o (IF facade
        THEN << <<"<bean id='">> \o lower(cn) \o <<"Facade", "' class='com.example.">> \o cn
                  \o <<"Facade", "'/>">> >>
        ELSE <<>>)

\* C10: the wiring part of the Config text holds one bean line for
\* <ClassName>Service, one for <ClassName>Facade exactly when the facade is
\* used, and no other bean line.
C10_BeanLines ==
    /\ pc \in {"mkdir", "writeController", "writeFacade", "writeService", "writeConfig", "saved"}
          => BeanLines(output_data.spring_config) = ExpectedBeans(class_name, use_facade)
    /\ \A f \in DOMAIN fs :
          (f[2] = "Config" /\ fs[f] # EmptyText) =>
              \E facade \in BOOLEAN : BeanLines(fs[f]) = ExpectedBeans(f[1], facade)
    /\ (pc = "done" /\ tool = "convert_hcl_to_sap" /\ HasTexts(ret[1])) =>
          BeanLines(ret[1].spring_config)
            = ExpectedBeans(FactsOf(hcl_code).class_name, NeedsFacadeOf(hcl_code))

C10_Witness ==
    /\ pc = "saved" /\ use_facade
    /\ Len(BeanLines(fs[<<class_name, "Config">>])) = 2
    /\ \E f \in DOMAIN fs : f[2] = "Config" /\ f[1] # class_name /\ Len(BeanLines(fs[f])) = 1

(***************************************************************************)
(* Specification of generate_dto (both files) and generate_impex on every  *)
(* class name and field-name list, repeats included, and of the emitted    *)
(* facade's execute method on every request and order-service answer.      *)
(***************************************************************************)
DtoPropertyLists == SeqsUpTo(FieldNames \cup {"qty"}, MaxProps)

InitGenerators ==
    /\ call \in {[fn |-> f, class_name |-> cn, properties |-> ps] :
                    f \in {"generate_dto", "generate_dto_v1", "generate_impex"},
                    cn \in ClassNames, ps \in DtoPropertyLists}
               \cup {[fn |-> "facade_execute", request |-> rq, lookup |-> lk] :
                       rq \in Requests, lk \in Lookups}
    /\ out = <<>>
    /\ ToolIdle

CallGenerateDto ==
    /\ call.fn = "generate_dto"
    /\ out = <<>>
    /\ out' = <<generate_dto(call.class_name, call.properties)>>
    /\ UNCHANGED <<call, locals, toolVars>>

CallGenerateDtoV1 ==
    /\ call.fn = "generate_dto_v1"
    /\ out = <<>>
    /\ out' = <<generate_dto_v1(call.class_name, call.properties)>>
    /\ UNCHANGED <<call, locals, toolVars>>

CallGenerateImpex ==
    /\ call.fn = "generate_impex"
    /\ out = <<>>
    /\ out' = <<generate_impex(call.class_name, call.properties)>>
    /\ UNCHANGED <<call, locals, toolVars>>

\* the execute method of the emitted facade
CallFacadeExecute ==
    /\ call.fn = "facade_execute"
    /\ out = <<>>
    /\ out' = <<facade_execute(call.request, call.lookup)>>
    /\ UNCHANGED <<call, locals, toolVars>>

NextGenerators ==
    CallGenerateDto \/ CallGenerateDtoV1 \/ CallGenerateImpex \/ CallFacadeExecute

SpecGenerators == InitGenerators /\ [][NextGenerators]_vars

\* the lines of a text that open with a given fragment, in the text's order
RECURSIVE LinesOpening(_, _)
LinesOpening(text, opening) ==
    IF text = <<>> THEN <<>>
    ELSE (IF Head(text) # <<>> /\ Head(text)[1] = opening THEN <<Head(text)>> ELSE <<>>)
         \o LinesOpening(Tail(text), opening)

\* the names a DTO text declares as fields, reads in getters, writes in setters
DeclaredFields(text) ==
    LET ls == LinesOpening(text, "    private String ") IN [i \in DOMAIN ls |-> ls[i][2]]
GetterPairs(text) ==
    LET ls == LinesOpening(text, "    public String ") IN
    [i \in DOMAIN ls |-> <<ls[i][2], ls[i][3], ls[i][7]>>]
SetterPairs(text) ==
    LET ls == LinesOpening(text, "    public void ") IN
    [i \in DOMAIN ls |-> <<ls[i][2], ls[i][3], ls[i][5], ls[i][9]>>]

\* C11: generate_dto emits one String field line and one getter/setter pair
\* per entry of the field-name list, in the list's order, a name that occurs
\* k times giving k field lines and k pairs, and nothing for any other name.
C11_DtoFieldFidelity ==
    (call.fn \in {"generate_dto", "generate_dto_v1"} /\ out # <<>>) =>
        LET text == out[1]
            ps == call.properties
            n == Len(ps)
        IN /\ DeclaredFields(text) = ps
           /\ GetterPairs(text) = [i \in 1..n |-> <<"get", Capitalize(ps[i]), ps[i]>>]
           /\ SetterPairs(text) = [i \in 1..n |-> <<"set", Capitalize(ps[i]), ps[i], ps[i]>>]
           /\ Len(text) = 3 * n + 3
           /\ \A i \in 1..n :
                 /\ text[1 + i] = FieldLine(ps[i])
                 /\ text[n + 2 * i + 1] = GetterLine(ps[i])
                 /\ text[n + 2 * i + 2] = SetterLine(ps[i])

C11_Witness ==
    /\ call.fn = "generate_dto" /\ out # <<>>
    /\ call.properties = <<"orderId", "orderId">>
    /\ DeclaredFields(out[1]) = <<"orderId", "orderId">>
    /\ Len(GetterPairs(out[1])) = 2

\* the positions of the lines of a text that open with a given fragment
PositionsOpening(text, opening) ==
    {i \in DOMAIN text : text[i] # <<>> /\ text[i][1] = opening}

\* C12: generate_spring_controller (both files) emits one HTTP entry point
\* per method of the list named performExecute (none for zero, k for k),
\* each mapped to /api/<class name lower-cased> and followed by its execute
\* method, and no entry point for a method of any other name.
C12_EntryPointPerPerformExecute ==
    (call.fn \in {"output_data", "output_data_v1"} /\ out # <<>>) =>
        LET text == out[1].spring_controller
            cn == call.class_name
            k == CountNamed(call.methods, "performExecute")
            routes == PositionsOpening(text, "    @PostMapping(\"/api/")
            entries == PositionsOpening(text, "    public ResponseDTO execute(@RequestBody ")
        IN /\ Cardinality(routes) = k
           /\ Cardinality(entries) = k
           /\ \A i \in routes :
                 /\ text[i] = <<"    @PostMapping(\"/api/">> \o lower(cn) \o <<"\")">>
                 /\ i + 1 \in entries
           /\ Len(text) = 11 + 4 * k

C12_Witness ==
    /\ call.fn = "output_data" /\ out # <<>>
    /\ call.class_name = <<"Order", "Cmd">>
    /\ call.methods = <<MethodDeclaration("validate", <<>>), MethodDeclaration("performExecute", <<>>)>>
    /\ Cardinality(PositionsOpening(out[1].spring_controller, "    @PostMapping(\"/api/")) = 1
    /\ out[1].spring_controller[11] = <<"    @PostMapping(\"/api/", "order", "cmd", "\")">>

\* the value of a row cell: the entry of that name, or the placeholder
Cell(props, name) == IF Contains(props, name) THEN name ELSE "default"

\* C13: for every class name and field-name list generate_impex returns a
\* two-line script, the fixed header and one data row whose three cells are
\* the orderId, userId and paymentMethod entries of the list, each replaced
\* by the fixed placeholder when the list does not hold that name.
C13_ImpexFixedShape ==
    (call.fn = "generate_impex" /\ out # <<>>) =>
        /\ "text" \in DOMAIN out[1]
        /\ out[1].text =
              << ImpexHeader,
                 <<";">> \o lower(call.class_name)
                 \o <<"_", Cell(call.properties, "orderId"), ";",
                      Cell(call.properties, "userId"), ";",
                      Cell(call.properties, "paymentMethod")>> >>

InStages(i, stage) == \E k \in DOMAIN stages[i] : stages[i][k] = stage

\* C14: a unit with a class name, in the command family, with a list of
\* non-empty field names never ends in a generation failure: the string tool
\* returns the texts for it, and the batch tool's generation step completes
\* (a unit that was classified is emitted).
C14_NoGenerationFailure ==
    /\ (pc = "done" /\ tool = "convert_hcl_to_sap" /\ Accepts(hcl_code)
        /\ \A k \in DOMAIN FactsOf(hcl_code).properties : FactsOf(hcl_code).properties[k] # "")
          => HasTexts(ret[1])
    /\ \A i \in Units :
          (Processed(i) /\ InStages(i, "Classified")) => InStages(i, "Emitted")

(***************************************************************************)
(* Properties of repeated invocations.                                     *)
(***************************************************************************)
\* the invocations before the current one
EarlierRuns == 1..(Len(runs) - 1)
ThisRun == runs[Len(runs)]
ConversionFailures(entries) ==
    {i \in DOMAIN entries : IsError(entries[i]) /\ entries[i].error[1] = "Conversion failed: "}

EntriesOf(file) ==
    LET src == file.source
        facts == FactsOf(src)
    IN {ErrorEntry(file.path, <<"File processing failed: ", "OSError">>)}
       \cup (CASE src.kind = "lexerror" ->
                    {ErrorEntry(file.path, <<"File processing failed: ", "LexerError">>)}
               [] src.kind = "syntaxerror" ->
                    {ErrorEntry(file.path, <<"Invalid Java code">>),
                     ErrorEntry(file.path, <<"File processing failed: ", "AttributeError">>)}
               [] src.kind = "java" ->
                    IF facts.class_name = <<>>
                    THEN {ErrorEntry(file.path, <<"No class found in HCL code">>)}
                    ELSE IF ~facts.is_controller
                    THEN {ErrorEntry(file.path, NotCommandError(facts.class_name))}
                    ELSE {SuccessEntry(file.path, facts.class_name),
                          ErrorEntry(file.path, <<"Conversion failed: ", "OSError">>)})

\* C16: in the batch tool the class name, method list, field-name list and
\* flags in use for a unit are those of its own source text, whatever units
\* came before it; so are the texts emitted for it, and its report entry is
\* one its own file can get.
C16_UnitsIndependent ==
    tool = "convert_hcl_to_sap_files" =>
        /\ pc \in {"checkClass", "classify", "emit", "mkdir", "writeController",
                   "writeFacade", "writeService", "writeConfig", "saved"} =>
              LET facts == FactsOf(java_files[idx].source) IN
              /\ class_name = facts.class_name
              /\ methods = facts.methods
              /\ properties = facts.properties
              /\ is_controller = facts.is_controller
        /\ pc \in {"emit", "mkdir", "writeController", "writeFacade", "writeService",
                   "writeConfig", "saved"} =>
              use_facade = NeedsFacadeOf(java_files[idx].source)
        /\ \A k \in DOMAIN ThisRun.emitted :
              LET e == ThisRun.emitted[k]
                  facts == FactsOf(java_files[e.unit].source)
              IN /\ e.use_facade = NeedsFacadeOf(java_files[e.unit].source)
                 /\ e.output_data = OutputData(facts.class_name, facts.methods,
                                               facts.properties, e.use_facade)
        /\ \A i \in DOMAIN results : results[i] \in EntriesOf(java_files[i])

C16_Witness ==
    /\ tool = "convert_hcl_to_sap_files" /\ pc = "saved" /\ idx = 2
    /\ java_files[1].source = FacadeUnit /\ IsSuccess(results[1])
    /\ java_files[2].source = PlainUnit
    /\ properties = <<"orderId">> /\ Len(methods) = 1 /\ ~use_facade
    /\ Len(ThisRun.emitted) = 2
    /\ ThisRun.emitted[2].output_data.spring_facade = EmptyText

\* the first class of a Config text: its lines up to the first closing line
ResponseObject(text) ==
    LET closing == {i \in DOMAIN text : text[i] = <<"}">>}
        last == CHOOSE i \in closing : \A j \in closing : i <= j
    IN SubSeq(text, 1, last)

HasExactlyFields(class, names) ==
    /\ class[1] = <<"public class ResponseDTO ", "{">>
    /\ DeclaredFields(class) = names
    /\ GetterPairs(class) = [i \in DOMAIN names |-> <<"get", Capitalize(names[i]), names[i]>>]
    /\ SetterPairs(class) =
          [i \in DOMAIN names |-> <<"set", Capitalize(names[i]), names[i], names[i]>>]
    /\ Len(class) = 3 * Len(names) + 2

\* C17 as stated: the response object in the Config text is always the class
\* with the four fields status, orderId, message, error and their accessors,
\* whatever the class name, methods, field names and facade decision.
C17_ResponseObjectFourFields ==
    (call.fn \in {"output_data", "output_data_v1"} /\ out # <<>>) =>
        HasExactlyFields(ResponseObject(out[1].spring_config),
                         <<"status", "orderId", "message", "error">>)

\* C17 amended: in mcp_hcl_to_sap_project_up.py the response object in the
\* Config text is always the class with the four fields status, orderId,
\* message, error and their accessors; in mcp_hcl_to_sap.py it is always the
\* class with the one field status and its accessors; in both it does not
\* depend on the class name, methods, field names or facade decision.
C17_ResponseObjectFixed ==
    /\ (call.fn = "output_data" /\ out # <<>>) =>
          HasExactlyFields(ResponseObject(out[1].spring_config),
                           <<"status", "orderId", "message", "error">>)
    /\ (call.fn = "output_data_v1" /\ out # <<>>) =>
          HasExactlyFields(ResponseObject(out[1].spring_config), <<"status">>)

C17_Witness ==
    /\ call.fn = "output_data" /\ out # <<>>
    /\ call.use_facade /\ call.properties = <<"userId", "orderId">>
    /\ call.class_name = <<"Cmd", "Facade">>
    /\ Len(ResponseObject(out[1].spring_config)) = 14
    /\ DeclaredFields(out[1].spring_config)
          = <<"status", "orderId", "message", "error", "userId", "orderId">>

\* an error text that gives the place of the syntax error (e.location)
NamesLocation(message) == \E k \in DOMAIN message : message[k] = "e.location"

\* C18: a unit whose source text has a syntax error is rejected with an
\* error entry whose reason is a syntax-error reason giving the offending
\* location, and no file is written for it.
C18_SyntaxErrorLocated ==
    /\ \A i \in Units :
          (tool = "convert_hcl_to_sap_files" /\ Processed(i)
           /\ java_files[i].source.kind = "syntaxerror")
             => /\ IsError(results[i])
                /\ NamesLocation(results[i].error)
                /\ WrittenBy(i) = {}
    /\ (tool = "convert_hcl_to_sap" /\ pc = "done" /\ hcl_code.kind = "syntaxerror")
          => IsError(ret[1]) /\ NamesLocation(ret[1].error)

\* the one reason a parsed unit outside the command family is rejected with
MissReason(source) ==
    IF FactsOf(source).class_name = <<>> THEN <<"No class found in HCL code">>
    ELSE <<"Class ">> \o FactsOf(source).class_name
         \o <<" does not extend ControllerCommandImpl or implement ControllerCommand">>

\* C19: a parsed unit with no class declaration is rejected with the reason
\* "No class found in HCL code", one whose class is not in the command family
\* with "Class <name> does not extend ControllerCommandImpl or implement
\* ControllerCommand"; the no-class reason wins, the unit gets that one
\* reason only, and no file is written for it.
C19_ClassificationMiss ==
    /\ \A i \in Units :
          (tool = "convert_hcl_to_sap_files" /\ Processed(i) /\ InStages(i, "ParseOK")
           /\ ~Accepts(java_files[i].source))
             => /\ results[i] = ErrorEntry(java_files[i].path, MissReason(java_files[i].source))
                /\ WrittenBy(i) = {}
                /\ stages[i][Len(stages[i])] = "Rejected"
    /\ (tool \in {"convert_hcl_to_sap", "convert_hcl_to_sap_v1"} /\ pc = "done"
        /\ hcl_code.kind = "java" /\ ~Accepts(hcl_code))
          => ret[1] = ErrorResponse(MissReason(hcl_code))

C19_Witness ==
    /\ tool = "convert_hcl_to_sap_files" /\ pc = "done" /\ Len(results) = 2
    /\ java_files[1].source = NoClassUnit
    /\ results[1].error = <<"No class found in HCL code">>
    /\ java_files[2].source = CommandThenHelperUnit
    /\ results[2].error = <<"Class ", "Cmd", "Service",
                            " does not extend ControllerCommandImpl or implement ControllerCommand">>
    /\ fs = <<>>

AllPresent(request) ==
    ~request.null /\ request.orderId # <<>> /\ request.userId # <<>>
    /\ request.paymentMethod # <<>>
\* the order was retrieved and its status code is PENDING
OrderPending(lookup) == lookup.outcome = "order" /\ lookup.status = << <<"PENDING">> >>
\* an error is raised while the request is handled
ExecuteRaises(request, lookup) ==
    \/ request.null
    \/ /\ AllPresent(request)
       /\ \/ lookup.outcome = "throws"
          \/ /\ request.paymentMethod = <<"CREDIT_CARD">>
             /\ (lookup.outcome = "null" \/ lookup.status = <<>>)

\* C20: the emitted facade's execute yields "success" exactly when orderId,
\* userId and paymentMethod are all present, paymentMethod is "CREDIT_CARD"
\* and the retrieved order's status code is "PENDING"; an absent field gives
\* "failure" with "Missing required fields", a failed rule gives "failure",
\* a raised error gives "failure" with the error's message, and the status
\* is set exactly once on every path.
C20_FacadeDecision ==
    (call.fn = "facade_execute" /\ out # <<>>) =>
        LET response == out[1]
            request == call.request
            lookup == call.lookup
        IN /\ response.status_sets = 1
           /\ response.status \in {<<"success">>, <<"failure">>}
           /\ response.status = <<"success">>
                 <=> (AllPresent(request) /\ request.paymentMethod = <<"CREDIT_CARD">>
                      /\ OrderPending(lookup))
           /\ (~request.null /\ ~AllPresent(request))
                 => response.error = <<"Missing required fields">>
           /\ ExecuteRaises(request, lookup)
                 => /\ response.status = <<"failure">>
                    /\ Len(response.error) = 2
                    /\ response.error[1] = "Error processing order: "
           /\ (AllPresent(request) /\ ~ExecuteRaises(request, lookup)
               /\ response.status = <<"failure">>)
                 => response.error = <<"Invalid payment method or order status">>

C20_Witness ==
    /\ call.fn = "facade_execute" /\ out # <<>>
    /\ call.request.paymentMethod = <<"CREDIT_CARD">>
    /\ call.lookup.status = << <<"PENDING">> >>
    /\ out[1].status = <<"success">> /\ out[1].orderId = <<"o1">>
    /\ out[1].status_sets = 1

(***************************************************************************)
(* Properties of traverse_ast.                                             *)
(***************************************************************************)
Visited == out[1]
IsNode(v) == v.kind \notin PrimKinds \cup {"None", "list"}
\* the nodes among the values handed to the visitor, in order
VisitedNodes == SelectSeq(Visited, IsNode)
CountIn(s, v) == Cardinality({k \in DOMAIN s : s[k] = v})

\* C21: traverse_ast hands to the visitor every node reachable from the
\* start node through the child relation, those in child containers and in
\* containers nested inside containers included, at any depth.
C21_TraversalTotal ==
    (call.fn = "traverse_ast" /\ out # <<>>) =>
        LET reachable == walk_tree(call.node) IN
        \A k \in DOMAIN reachable :
            CountIn(VisitedNodes, reachable[k]) >= CountIn(reachable, reachable[k])

\* s can be obtained from t by dropping elements
RECURSIVE IsSubsequence(_, _)
IsSubsequence(s, t) ==
    IF s = <<>> THEN TRUE
    ELSE IF t = <<>> THEN FALSE
    ELSE IF Head(s) = Head(t) THEN IsSubsequence(Tail(s), Tail(t))
    ELSE IsSubsequence(s, Tail(t))

\* C22: traverse_ast calls the visitor first on the start node, then on
\* descendants in the tree's pre-order; no node is visited more often than
\* it occurs in the tree; no primitive scalar and no absent child is handed
\* to the visitor.
C22_PreOrderOnce ==
    (call.fn = "traverse_ast" /\ out # <<>>) =>
        /\ Visited # <<>> /\ Visited[1] = call.node
        /\ IsSubsequence(VisitedNodes, walk_tree(call.node))
        /\ \A k \in DOMAIN Visited : ~IsScalar(Visited[k]) /\ Visited[k].kind # "None"

C22_Witness ==
    /\ call.fn = "traverse_ast" /\ out # <<>>
    /\ call.node = MethodDeclaration("performExecute", <<InBlock(IfStmt), PutResp>>)
    /\ Visited = <<call.node, InBlock(IfStmt), IfStmt, PutResp>>

\* a value without the children attribute: a list met as an item of a list
LacksChildren(v) == v.kind = "list"

\* what the visitor is to see below a value: the value, then what it is to
\* see below each of the value's children and their items, one lacking the
\* attribute counting as childless
RECURSIVE GracefulVisit(_)
RECURSIVE GracefulVisitAll(_)
GracefulVisitAll(values) ==
    IF values = <<>> THEN <<>>
    ELSE GracefulVisit(Head(values)) \o GracefulVisitAll(Tail(values))

GracefulVisit(v) ==
    IF ~Truthy(v) \/ IsScalar(v) THEN <<>>
    ELSE IF LacksChildren(v) THEN <<v>>
    ELSE <<v>> \o GracefulVisitAll(
            Join([k \in DOMAIN v.children |->
                    IF v.children[k].kind = "list" THEN v.children[k].children
                    ELSE <<v.children[k]>>]))

\* C24: a value without the children attribute is treated as childless: the
\* visitor is called on it, on nothing below it, no error is raised, and the
\* traversal goes on with its siblings.
C24_MissingAccessorIsLeaf ==
    (call.fn = "traverse_ast" /\ out # <<>>) =>
        /\ Visited = GracefulVisit(call.node)
        /\ \A k \in DOMAIN call.node.children[3].children :
              LET stmt == call.node.children[3].children[k] IN
              /\ CountIn(Visited, stmt) >= 1
              /\ stmt.kind = "ClassCreator" =>
                    \A j \in DOMAIN stmt.children[2].children :
                        LacksChildren(stmt.children[2].children[j])
                           => CountIn(Visited, stmt.children[2].children[j]) >= 1

C24_Witness ==
    /\ call.fn = "traverse_ast" /\ out # <<>>
    /\ call.node = MethodDeclaration("performExecute", <<InInitializer(IfStmt), CtxCall>>)
    /\ Visited = <<call.node, InInitializer(IfStmt), List(<<IfStmt>>), CtxCall>>
(***************************************************************************)
(* Termination: the tools and traverse_ast, every step taken in turn.      *)
(***************************************************************************)
\* a call of convert_hcl_to_sap_files or of traverse_ast
InitLive ==
    \/ Init /\ tool = "convert_hcl_to_sap_files"
    \/ InitFacade /\ call.fn = "traverse_ast"

NextLive ==
    \/ StartFiles \/ ReadFile \/ ParseHclJavaCode \/ CheckTree \/ Extract \/ CheckClass
    \/ Classify \/ Emit \/ Mkdir \/ WriteController \/ WriteFacade \/ WriteService
    \/ WriteConfig \/ AppendSuccess \/ Return \/ CallTraverseAst

\* a call runs to its end: the interpreter takes the next step while there is one
SpecLive == InitLive /\ [][NextLive]_vars /\ WF_vars(NextLive)

EndsIn(i, names) == stages[i] # <<>> /\ stages[i][Len(stages[i])] \in names

Returned ==
    \/ call.fn # "none" /\ out # <<>>
    \/ /\ call.fn = "none" /\ pc = "done" /\ ret # <<>>
       /\ \A i \in 1..Len(java_files) : EndsIn(i, {"Rejected", "Written"})
       /\ (tool = "convert_hcl_to_sap_files" /\ input_dir = "dir" /\ java_files # <<>>)
              => /\ DOMAIN ret[1] = {"results"}
                 /\ Len(ret[1].results) = Len(java_files)

\* C23: every call of traverse_ast on a (finite, acyclic) tree returns, and
\* in every batch every unit eventually reaches Rejected or Written and
\* convert_hcl_to_sap_files eventually returns its report.
C23_Terminates == <>Returned

C23_Witness ==
    /\ tool = "convert_hcl_to_sap_files" /\ pc = "done" /\ Len(java_files) = 2
    /\ java_files[1].source = FacadeUnit /\ EndsIn(1, {"Written"})
    /\ java_files[2].source = NoEntryUnit /\ EndsIn(2, {"Rejected"})
    /\ Len(ret[1].results) = 2
(***************************************************************************)
(* Units that declare several classes.                                     *)
(***************************************************************************)
ClassesOf(tree) == SelectKind(walk_tree(tree), "ClassDeclaration")
LastClass(tree) == ClassesOf(tree)[Len(ClassesOf(tree))]
DeclaratorsOf(tree) ==
    LET fields == SelectKind(walk_tree(tree), "FieldDeclaration") IN
    Join([k \in DOMAIN fields |-> fields[k].declarators])
LastClassInFamily(tree) ==
    ClassesOf(tree) # <<>> /\ is_controller_command(LastClass(tree))

\* C25: after the extraction loop class_name and is_controller are those of
\* the last class declaration in tree-walk order, methods and properties are
\* collected from every class of the unit, and the unit is accepted exactly
\* when that last class is in the command family (both tools).
C25_LastClassDecides ==
    /\ (tool = "convert_hcl_to_sap_files" /\ pc = "checkClass")
          => /\ class_name = (IF ClassesOf(java_tree) = <<>> THEN <<>>
                              ELSE LastClass(java_tree).name)
             /\ is_controller = LastClassInFamily(java_tree)
             /\ methods = SelectKind(walk_tree(java_tree), "MethodDeclaration")
             /\ properties = DeclaratorsOf(java_tree)
    /\ \A i \in 1..Len(java_files) :
          (InStages(i, "ParseOK") /\ EndsIn(i, {"Rejected", "Written"}))
             => (InStages(i, "Classified") <=> LastClassInFamily(java_files[i].source.tree))
    /\ (tool = "convert_hcl_to_sap" /\ pc = "done" /\ hcl_code.kind = "java")
          => IF ClassesOf(hcl_code.tree) = <<>>
             THEN ret[1] = ErrorResponse(<<"No class found in HCL code">>)
             ELSE ~LastClassInFamily(hcl_code.tree)
                     <=> ret[1] = ErrorResponse(NotCommandError(LastClass(hcl_code.tree).name))

C25_Witness ==
    /\ tool = "convert_hcl_to_sap_files" /\ pc = "done" /\ Len(java_files) = 2
    /\ java_files[1].source = HelperThenCommandUnit /\ InStages(1, "Classified")
    /\ java_files[2].source = NestedHelperUnit /\ ~InStages(2, "Classified")
    /\ class_name = <<"Cmd", "Service">> /\ ~is_controller
    /\ Len(methods) = 2 /\ properties = <<"orderId", "qty">>
(***************************************************************************)
(* The files of a unit reported as success.                                *)
(***************************************************************************)
EmittedOf(i) ==
    CHOOSE e \in {ThisRun.emitted[k] : k \in DOMAIN ThisRun.emitted} : e.unit = i

HoldsText(name, text) == name \in DOMAIN fs /\ fs[name] = text

\* C26: in one run of convert_hcl_to_sap_files no file written for a unit
\* reported as success is written again by a later unit, and at the end of
\* the batch the Controller, Service and Config files of every success entry
\* hold the texts emitted for that unit and its Facade file exists exactly
\* when that unit needed orchestration.
C26_SuccessFilesKept ==
    /\ \A k, l \in DOMAIN written :
          (k < l /\ written[k].file = written[l].file
                 /\ written[k].unit \in DOMAIN results /\ IsSuccess(results[written[k].unit]))
             => written[l].unit = written[k].unit
    /\ (tool = "convert_hcl_to_sap_files" /\ pc = "done")
          => \A i \in DOMAIN results :
                IsSuccess(results[i])
                   => LET cls == results[i].class_name
                          e == EmittedOf(i)
                      IN /\ HoldsText(FileName(cls, "Controller"), e.output_data.spring_controller)
                         /\ HoldsText(FileName(cls, "Service"), e.output_data.spring_service)
                         /\ HoldsText(FileName(cls, "Config"), e.output_data.spring_config)
                         /\ FileName(cls, "Facade") \in DOMAIN fs <=> e.use_facade
(***************************************************************************)
(* The success entry and the writes of save_output_files.                  *)
(***************************************************************************)
RECURSIVE FilesOfUnit(_, _)
FilesOfUnit(log, i) ==
    IF log = <<>> THEN <<>>
    ELSE (IF Head(log).unit = i THEN <<Head(log).file>> ELSE <<>>) \o FilesOfUnit(Tail(log), i)

FilesToWrite(cls_name, facade) ==
    <<FileName(cls_name, "Controller")>>
    \o (IF facade THEN <<FileName(cls_name, "Facade")>> ELSE <<>>)
    \o <<FileName(cls_name, "Service"), FileName(cls_name, "Config")>>

InSave == {"mkdir", "writeController", "writeFacade", "writeService", "writeConfig"}

AppendsSuccess == Len(results') = Len(results) + 1 /\ IsSuccess(results'[Len(results')])

LeavesSaveByRaise == pc \in InSave /\ pc' \notin (InSave \cup {"saved"})

\* C27: a success entry is appended only when save_output_files has written
\* the unit's Controller, Facade (when needed), Service and Config files, in
\* this order, each holding its emitted text; a failed write appends an error
\* entry for the unit, entries are never removed, and a unit has one entry.
C27_SuccessAfterAllWrites ==
    [][ /\ AppendsSuccess
           => /\ pc = "saved"
              /\ FilesOfUnit(written, idx) = FilesToWrite(class_name, use_facade)
              /\ HoldsText(FileName(class_name, "Controller"), output_data.spring_controller)
              /\ use_facade
                    => HoldsText(FileName(class_name, "Facade"), output_data.spring_facade)
              /\ HoldsText(FileName(class_name, "Service"), output_data.spring_service)
              /\ HoldsText(FileName(class_name, "Config"), output_data.spring_config)
        /\ LeavesSaveByRaise
              => results' = Append(results,
                                   ErrorEntry(file_path, <<"Conversion failed: ", "OSError">>))
        /\ Len(results') >= Len(results) /\ SubSeq(results', 1, Len(results)) = results
        /\ Len(results') \in {idx - 1, idx}
      ]_vars

C27_Witness ==
    /\ tool = "convert_hcl_to_sap_files" /\ pc = "done" /\ Len(results) = 2
    /\ IsSuccess(results[1])
    /\ FilesOfUnit(written, 1) = FilesToWrite(<<"Order", "Cmd">>, TRUE)
    /\ results[2] = ErrorEntry(2, <<"Conversion failed: ", "OSError">>)
    /\ FilesOfUnit(written, 2) = <<FileName(<<"Cmd">>, "Controller"), FileName(<<"Cmd">>, "Service")>>
(***************************************************************************)
(* The string tool against the per-unit step of the batch tool.            *)
(***************************************************************************)
\* what convert_hcl_to_sap returns for the text of a unit that parses
StringToolOn(source) == convert_hcl_to_sap(source, [tree |-> source.tree])

SameTexts(response, data) ==
    /\ response.spring_controller = data.spring_controller
    /\ response.spring_facade = data.spring_facade
    /\ response.spring_service = data.spring_service
    /\ response.spring_config = data.spring_config

\* C28: on the same source text convert_hcl_to_sap and the per-unit step of
\* convert_hcl_to_sap_files accept and reject alike, and for an accepted text
\* they produce the same controller, facade, service and Config texts.
C28_ToolsEquivalent ==
    /\ tool = "convert_hcl_to_sap_files"
          => \A i \in Units :
                java_files[i].source.kind = "java"
                   => LET response == StringToolOn(java_files[i].source) IN
                      /\ InStages(i, "Emitted")
                            => /\ HasTexts(response)
                               /\ SameTexts(response, EmittedOf(i).output_data)
                      /\ (InStages(i, "ParseOK") /\ InStages(i, "Rejected")
                             /\ ~InStages(i, "Emitted"))
                            => IsError(response)
    /\ (tool = "convert_hcl_to_sap" /\ pc = "done" /\ hcl_code.kind = "java")
          => (HasTexts(ret[1]) <=> Accepts(hcl_code))
(***************************************************************************)
(* Braces of the emitted Java texts.                                       *)
(***************************************************************************)
\* the braces of a text, in order
Braces(text) == SelectSeq(Join(text), LAMBDA t : t \in {"{", "}"})

\* the nesting depth after each brace of a sequence of braces, or -1 once a
\* brace closes what was not opened
RECURSIVE DepthAfter(_, _)
DepthAfter(braces, depth) ==
    IF depth < 0 THEN -1
    ELSE IF braces = <<>> THEN depth
    ELSE DepthAfter(Tail(braces), IF Head(braces) = "{" THEN depth + 1 ELSE depth - 1)

Balanced(text) == DepthAfter(Braces(text), 0) = 0

\* C29: every emitted Java text (controller, facade, service, and the Config
\* text with the DTO and the response object) has as many '{' as '}' and no
\* prefix of it closes more braces than it has opened.
C29_BalancedBraces ==
    (call.fn = "output_data" /\ out # <<>>)
       => /\ Balanced(out[1].spring_controller)
          /\ Balanced(out[1].spring_facade)
          /\ Balanced(out[1].spring_service)
          /\ Balanced(out[1].spring_config)
(***************************************************************************)
(* The accessors the emitted texts call and the ones they define.          *)
(***************************************************************************)
\* the methods a text calls on a receiver: receiver, "get" or "set", Name
CallsOn(text, receiver) ==
    LET tokens == Join(text) IN
    {<<tokens[i + 1], tokens[i + 2]>> : i \in {j \in DOMAIN tokens : tokens[j] = receiver}}

GettersOf(class) == {<<GetterPairs(class)[i][1], GetterPairs(class)[i][2]>> :
                        i \in DOMAIN GetterPairs(class)}
SettersOf(class) == {<<SetterPairs(class)[i][1], SetterPairs(class)[i][2]>> :
                        i \in DOMAIN SetterPairs(class)}

\* the request DTO: the class that follows the response object in the Config text
RequestObject(text) == SubSeq(text, Len(ResponseObject(text)) + 1, Len(text))

RequestCallsDefined(data) ==
    (CallsOn(data.spring_service, "request.") \cup CallsOn(data.spring_facade, "request."))
        \subseteq GettersOf(RequestObject(data.spring_config))

ResponseCallsDefined(data) ==
    (CallsOn(data.spring_service, "response.") \cup CallsOn(data.spring_facade, "response."))
        \subseteq SettersOf(ResponseObject(data.spring_config))

\* C30: for every field-name list, each getter the emitted service and
\* facade call on the request DTO is defined by the DTO emitted from the
\* field names, and each setter they call on the response object is defined
\* by the emitted response object.
C30_AccessorsConsistent ==
    (call.fn = "output_data" /\ out # <<>>)
       => RequestCallsDefined(out[1]) /\ ResponseCallsDefined(out[1])

====
